---- MODULE Spec2Model ----
(***************************************************************************)
(* A model of the polling worker of lametric-iracing (src/main.py):        *)
(* MainWorker.run and the handlers it calls (connected, data_collection,   *)
(* process_data, send_default_display, send_ratings, send_notification,    *)
(* dismiss_notifications), the Transport wrapper call_lametric_api and the *)
(* GUI handlers that write the worker's fields.                            *)
(*                                                                         *)
(* Representation of Python values:                                        *)
(*   - str is a TLA+ string; None in a str field is "" (no formatting of   *)
(*     the program yields the empty string, and Python treats both as      *)
(*     false in `if x:`); PyStr renders None as f"{None}" does;            *)
(*   - an Optional dict (previous_data_sent) is <<>> for None and <<d>>    *)
(*     for a dict d, compared by value;                                    *)
(*   - the SessionFlags bitmask is the set of the names of its set bits,   *)
(*     so `mask & Flags.x` is `x \in mask`;                                *)
(*   - a lap time (a float number of seconds) is a whole number of         *)
(*     tenths of a millisecond; a safety rating is a whole number of       *)
(*     hundredths.                                                         *)
(***************************************************************************)
EXTENDS Integers, Sequences, FiniteSets, TLC

(***************************************************************************)
(* Bounds of the model.                                                    *)
(***************************************************************************)
\* poll cycles (process_data calls) explored in one behaviour
MaxCycles == 2
\* transitions to Connected (connected() calls) explored in one behaviour
MaxConnects == 2

(***************************************************************************)
(* Python string helpers.                                                  *)
(***************************************************************************)
None == ""

PyStr(x) == IF x = None THEN "None" ELSE x

Pad3(n) ==
  IF n < 10 THEN "00" \o ToString(n)
  ELSE IF n < 100 THEN "0" \o ToString(n)
  ELSE ToString(n)

\* f"{n:,}"
RECURSIVE FormatThousands(_)
FormatThousands(n) ==
  IF n < 1000 THEN ToString(n)
  ELSE FormatThousands(n \div 1000) \o "," \o Pad3(n % 1000)

\* f"{x}" of a float given in hundredths: repr keeps at least one decimal
\* and drops a trailing zero (3.45 -> "3.45", 3.5 -> "3.5", 4.0 -> "4.0")
FormatFloat(h) ==
  LET ip == h \div 100
      fp == h % 100
  IN  ToString(ip) \o "." \o
        (IF fp % 10 = 0 THEN ToString(fp \div 10)
         ELSE IF fp < 10 THEN "0" \o ToString(fp)
         ELSE ToString(fp))

\* code point order of the characters the formatted fields are made of
CharOrd(c) ==
  CASE c = " " -> 32
    [] c = "," -> 44
    [] c = "." -> 46
    [] c = "/" -> 47
    [] c = "0" -> 48
    [] c = "1" -> 49
    [] c = "2" -> 50
    [] c = "3" -> 51
    [] c = "4" -> 52
    [] c = "5" -> 53
    [] c = "6" -> 54
    [] c = "7" -> 55
    [] c = "8" -> 56
    [] c = "9" -> 57
    [] c = ":" -> 58
    [] OTHER -> 8734

\* Python's a < b on two str values: lexicographic by code point
RECURSIVE StrLessFrom(_, _, _)
StrLessFrom(a, b, i) ==
  IF i > Len(b) THEN FALSE
  ELSE IF i > Len(a) THEN TRUE
  ELSE LET ca == CharOrd(SubSeq(a, i, i))
           cb == CharOrd(SubSeq(b, i, i))
       IN  IF ca < cb THEN TRUE
           ELSE IF ca > cb THEN FALSE
           ELSE StrLessFrom(a, b, i + 1)

StrLess(a, b) == StrLessFrom(a, b, 1)

(***************************************************************************)
(* Data classes.                                                           *)
(***************************************************************************)
Frame(icon, text) == [icon |-> icon, text |-> text]

Model(cycles, frames) == [cycles |-> cycles, frames |-> frames]

\* Notification(...).to_dict()
Notification(priority, icon_type, model) ==
  [priority |-> priority, icon_type |-> icon_type, model |-> model]

Icons ==
  [ ir |-> "i43085", green_tick |-> "a43780", spinner |-> "a7660",
    start_hidden |-> "a43445", checkered |-> "a43490", white |-> "a43444",
    green |-> "a43445", yellow |-> "a43439", yellow_waving |-> "a43439",
    red |-> "a43491", blue |-> "a43495", debris |-> "a43497",
    green_held |-> "i43445", one_lap_to_green |-> "i43445",
    random_waving |-> "a43458", caution |-> "i43439",
    caution_waving |-> "a43439", black |-> "a43499",
    disqualify |-> "a43492", furled |-> "a43496", repair |-> "a43500",
    crossed |-> "i43085", ten_to_go |-> "i43085", five_to_go |-> "i43085",
    license_letter_r |-> "i43591", license_letter_d |-> "i43592",
    license_letter_c |-> "i43593", license_letter_b |-> "i43594",
    license_letter_a |-> "i43595", license_letter_p |-> "i43596",
    purple |-> "43599", laps |-> "43645", position |-> "44149",
    gain_position |-> "a43651", lose_position |-> "a43652" ]

\* Data(): the fields the worker writes (the others stay None for ever)
EmptyData == [position |-> None, laps |-> None, best_laptime |-> None, flags |-> {}]

\* Driver()
EmptyDriver == [caridx |-> -1, irating |-> 0, license_letter |-> None, safety_rating |-> 0]

\* Options()
DefaultOptions ==
  [ enable_irating |-> TRUE, enable_license |-> TRUE, enable_flags |-> TRUE,
    enable_laps |-> TRUE, enable_bestlap |-> TRUE, enable_position |-> TRUE,
    default_display |-> "ratings" ]

(***************************************************************************)
(* The Transport: call_lametric_api.                                       *)
(*                                                                         *)
(* What the device (or the network) answers to one HTTP request is an      *)
(* input.  http is "no_settings" (IP or API key missing: no request is     *)
(* made), "timeout", "refused", "status" (a non-2xx status), "malformed"   *)
(* (2xx, body is not JSON) or "ok" (2xx, body is the JSON value `body`).   *)
(* A JSON body is [kind, id, items]: kind "success" is {"success": ...}    *)
(* (with the id of the notification for a send), kind "errors" is a JSON   *)
(* object without a "success" key, kind "list" is the array `items` of     *)
(* queued notifications [id, cycles].                                      *)
(***************************************************************************)
NoBody == [kind |-> "None", id |-> "", items |-> <<>>]

Answer(http, body) == [http |-> http, body |-> body]

SuccessBody(id) == [kind |-> "success", id |-> id, items |-> <<>>]

ErrorsBody == [kind |-> "errors", id |-> "", items |-> <<>>]

ListBody(items) == [kind |-> "list", id |-> "", items |-> items]

\* call_lametric_api without `if lametric_ip and lametric_api_key`
CallLametricApiWithoutSettings(endpoint, answer) ==
  IF answer.http \in {"timeout", "refused"} THEN [exc |-> "none", res |-> NoBody]
  ELSE IF answer.http = "status" THEN [exc |-> "none", res |-> NoBody]
  ELSE IF answer.http = "malformed" THEN [exc |-> "ValueError", res |-> NoBody]
  ELSE [exc |-> "none", res |-> answer.body]

\* the value call_lametric_api returns (res, None when kind is "None") and
\* the exception it lets escape (exc): json.loads raises a ValueError that
\* none of the except clauses names
CallLametricApi(endpoint, answer) ==
  IF answer.http = "no_settings" THEN [exc |-> "none", res |-> NoBody]
  ELSE IF answer.http \in {"timeout", "refused"} THEN [exc |-> "none", res |-> NoBody]
  ELSE IF answer.http = "status" THEN [exc |-> "none", res |-> NoBody]
  ELSE IF answer.http = "malformed" THEN [exc |-> "ValueError", res |-> NoBody]
  ELSE [exc |-> "none", res |-> answer.body]

(***************************************************************************)
(* dismiss_notification / dismiss_notifications.                           *)
(* delAnswers[id] is the device's answer to the DELETE of notification id. *)
(* The result is the sequence of ids a DELETE was issued for and the       *)
(* exception that ended the pass ("none" when it ran to its end).          *)
(***************************************************************************)
DismissNotification(id, delAnswers) ==
  LET r == CallLametricApi("delete", delAnswers[id])
  IN  IF r.exc # "none" THEN r.exc
      ELSE IF r.res.kind = "None" THEN "none"
      ELSE IF r.res.kind = "success" THEN "none"
      ELSE "KeyError"

\* the loop of dismiss_notifications with `!= 0` for `== 0` in the test of
\* cycles
RECURSIVE DismissLoopFinite(_, _, _, _)
DismissLoopFinite(items, excluding, delAnswers, deleted) ==
  IF items = <<>> THEN [deleted |-> deleted, exc |-> "none"]
  ELSE LET n == Head(items)
       IN  IF n.id # excluding /\ n.cycles # 0
           THEN LET e == DismissNotification(n.id, delAnswers)
                IN  IF e # "none"
                    THEN [deleted |-> Append(deleted, n.id), exc |-> e]
                    ELSE DismissLoopFinite(Tail(items), excluding, delAnswers,
                                           Append(deleted, n.id))
           ELSE DismissLoopFinite(Tail(items), excluding, delAnswers, deleted)

RECURSIVE DismissLoop(_, _, _, _)
DismissLoop(items, excluding, delAnswers, deleted) ==
  IF items = <<>> THEN [deleted |-> deleted, exc |-> "none"]
  ELSE LET n == Head(items)
       IN  IF n.id # excluding /\ n.cycles = 0
           THEN LET e == DismissNotification(n.id, delAnswers)
                IN  IF e # "none"
                    THEN [deleted |-> Append(deleted, n.id), exc |-> e]
                    ELSE DismissLoop(Tail(items), excluding, delAnswers,
                                     Append(deleted, n.id))
           ELSE DismissLoop(Tail(items), excluding, delAnswers, deleted)

DismissNotifications(excluding, queueAnswer, delAnswers) ==
  LET q == CallLametricApi("queue", queueAnswer)
  IN  IF q.exc # "none" THEN [queued |-> <<>>, deleted |-> <<>>, exc |-> q.exc]
      ELSE IF q.res.kind = "None"
      THEN [queued |-> <<>>, deleted |-> <<>>, exc |-> "none"]
      ELSE IF q.res.kind = "list"
      THEN LET l == DismissLoop(q.res.items, excluding, delAnswers, <<>>)
           IN  [queued |-> q.res.items, deleted |-> l.deleted, exc |-> l.exc]
      \* a JSON object: the loop runs over its keys, and key['id'] raises
      ELSE [queued |-> <<>>, deleted |-> <<>>, exc |-> "TypeError"]

(***************************************************************************)
(* send_notification.                                                      *)
(* prev is state.previous_data_sent; the result gives its new value, the   *)
(* outcome of the call and the exception that escapes it.                  *)
(*   outcome: "suppressed" (equal to prev: no Transport call),             *)
(*            "failed"     (the send gave no result, or a result without   *)
(*                          "success": nothing was transmitted),           *)
(*            "sent"       (the send gave a result with "success"),        *)
(*            "raised"     (the Transport call itself raised)              *)
(***************************************************************************)
\* no dismissal pass ran
NoPass == [queued |-> <<>>, deleted |-> <<>>, exc |-> "none"]

\* the result of a send_notification call; pass is the dismissal pass that
\* followed the send: the queue it listed and the ids it issued a DELETE for
SendResult(prev, outcome, exc, pass) ==
  [ prev |-> prev, outcome |-> outcome, exc |-> exc,
    queued |-> pass.queued, deleted |-> pass.deleted ]

\* send_notification without the comparison with previous_data_sent
SendNotificationUnchecked(data, prev, sendAnswer, queueAnswer, delAnswers) ==
  LET r == CallLametricApi("send", sendAnswer)
  IN  IF r.exc # "none"
      THEN SendResult(prev, "raised", r.exc, NoPass)
      ELSE IF r.res.kind # "success"
      THEN SendResult(prev, "failed", "none", NoPass)
      ELSE LET d == DismissNotifications(r.res.id, queueAnswer, delAnswers)
           IN  IF d.exc = "none"
               THEN SendResult(<<data>>, "sent", "none", d)
               ELSE IF d.exc = "TypeError"
               THEN SendResult(prev, "sent", "none", d)
               ELSE SendResult(prev, "sent", d.exc, d)

SendNotification(data, prev, sendAnswer, queueAnswer, delAnswers) ==
  IF <<data>> = prev
  THEN SendResult(prev, "suppressed", "none", NoPass)
  ELSE LET r == CallLametricApi("send", sendAnswer)
       IN  IF r.exc # "none"
           THEN SendResult(prev, "raised", r.exc, NoPass)
           \* "success" in None raises the TypeError the handler catches
           ELSE IF r.res.kind = "None"
           THEN SendResult(prev, "failed", "none", NoPass)
           ELSE IF r.res.kind # "success"
           THEN SendResult(prev, "failed", "none", NoPass)
           ELSE LET d == DismissNotifications(r.res.id, queueAnswer, delAnswers)
                IN  IF d.exc = "none"
                    THEN SendResult(<<data>>, "sent", "none", d)
                    \* except TypeError: previous_data_sent is not assigned
                    ELSE IF d.exc = "TypeError"
                    THEN SendResult(prev, "sent", "none", d)
                    ELSE SendResult(prev, "sent", d.exc, d)

(***************************************************************************)
(* data_collection: the formatting of the fields read from the source.     *)
(***************************************************************************)
\* f"{minutes:.0f}:0{seconds:.3f}" / f"{minutes:.0f}:{seconds:.3f}" of
\* divmod(LapBestLapTime, 60).  The lap time is a float of seconds; t is its
\* value in tenths of a millisecond.  The test `seconds < 10` is made on the
\* value itself, and :.3f then rounds it to the nearest millisecond (the
\* lap times drawn have no tenth equal to 5, where the rounding depends on
\* the binary value of the float).
FormatLapTime(t) ==
  LET minutes == t \div 600000
      seconds == t % 600000
      ms == (seconds + 5) \div 10
      secs3f == ToString(ms \div 1000) \o "." \o Pad3(ms % 1000)
  IN  IF seconds < 100000
      THEN ToString(minutes) \o ":0" \o secs3f
      ELSE ToString(minutes) \o ":" \o secs3f

FormatPosition(classPos, nDrivers) ==
  IF classPos > 0
  THEN ToString(classPos) \o " / " \o ToString(nDrivers)
  ELSE ToString(nDrivers) \o " / " \o ToString(nDrivers)

\* stands for the one-character string U+221E
InfinityMark == "@"

FormatLaps(lapCompleted, lapsRemain) ==
  LET laps_total == IF lapCompleted + lapsRemain > 32000
                    THEN InfinityMark
                    ELSE ToString(lapCompleted + lapsRemain)
  IN  ToString(lapCompleted) \o " / " \o laps_total

\* the Data object after data_collection has read the telemetry frame tel
CollectData(d, tel) ==
  [ position     |-> FormatPosition(tel.PlayerCarClassPosition, tel.nDrivers),
    best_laptime |-> IF tel.LapBestLapTime > 0
                     THEN FormatLapTime(tel.LapBestLapTime)
                     ELSE d.best_laptime,
    laps         |-> IF tel.LapCompleted > 0
                     THEN FormatLaps(tel.LapCompleted, tel.SessionLapsRemainEx)
                     ELSE d.laps,
    flags        |-> tel.SessionFlags ]

(***************************************************************************)
(* process_data: the frames of a cycle.                                    *)
(***************************************************************************)
\* the flag checks with the yellow_waving check placed after the yellow check
FlagTableYellowsTogether ==
  << [bit |-> "checkered",        icon |-> Icons.checkered,        text |-> "Finish"],
     [bit |-> "white",            icon |-> Icons.white,            text |-> "White"],
     [bit |-> "green",            icon |-> Icons.green,            text |-> "Green"],
     [bit |-> "yellow",           icon |-> Icons.yellow,           text |-> "Yellow"],
     [bit |-> "yellow_waving",    icon |-> Icons.yellow_waving,    text |-> "Yellow"],
     [bit |-> "red",              icon |-> Icons.red,              text |-> "Red"],
     [bit |-> "blue",             icon |-> Icons.blue,             text |-> "Blue"],
     [bit |-> "debris",           icon |-> Icons.debris,           text |-> "Debris"],
     [bit |-> "crossed",          icon |-> Icons.crossed,          text |-> "Crossed"],
     [bit |-> "one_lap_to_green", icon |-> Icons.one_lap_to_green, text |-> "in 1 lap"],
     [bit |-> "green_held",       icon |-> Icons.green_held,       text |-> "Green"],
     [bit |-> "ten_to_go",        icon |-> Icons.ten_to_go,        text |-> "10 to go"],
     [bit |-> "five_to_go",       icon |-> Icons.five_to_go,       text |-> "5 to go"],
     [bit |-> "random_waving",    icon |-> Icons.random_waving,    text |-> "Random"],
     [bit |-> "caution",          icon |-> Icons.caution,          text |-> "Caution"],
     [bit |-> "caution_waving",   icon |-> Icons.caution_waving,   text |-> "Caution"],
     [bit |-> "black",            icon |-> Icons.black,            text |-> "Black"],
     [bit |-> "disqualify",       icon |-> Icons.disqualify,       text |-> "DQ"],
     [bit |-> "furled",           icon |-> Icons.furled,           text |-> "Warn"],
     [bit |-> "repair",           icon |-> Icons.repair,           text |-> "Damage"] >>

\* the flag checks after start_hidden, in the order of the code
FlagTable ==
  << [bit |-> "checkered",        icon |-> Icons.checkered,        text |-> "Finish"],
     [bit |-> "white",            icon |-> Icons.white,            text |-> "White"],
     [bit |-> "green",            icon |-> Icons.green,            text |-> "Green"],
     [bit |-> "yellow",           icon |-> Icons.yellow,           text |-> "Yellow"],
     [bit |-> "red",              icon |-> Icons.red,              text |-> "Red"],
     [bit |-> "blue",             icon |-> Icons.blue,             text |-> "Blue"],
     [bit |-> "debris",           icon |-> Icons.debris,           text |-> "Debris"],
     [bit |-> "crossed",          icon |-> Icons.crossed,          text |-> "Crossed"],
     [bit |-> "yellow_waving",    icon |-> Icons.yellow_waving,    text |-> "Yellow"],
     [bit |-> "one_lap_to_green", icon |-> Icons.one_lap_to_green, text |-> "in 1 lap"],
     [bit |-> "green_held",       icon |-> Icons.green_held,       text |-> "Green"],
     [bit |-> "ten_to_go",        icon |-> Icons.ten_to_go,        text |-> "10 to go"],
     [bit |-> "five_to_go",       icon |-> Icons.five_to_go,       text |-> "5 to go"],
     [bit |-> "random_waving",    icon |-> Icons.random_waving,    text |-> "Random"],
     [bit |-> "caution",          icon |-> Icons.caution,          text |-> "Caution"],
     [bit |-> "caution_waving",   icon |-> Icons.caution_waving,   text |-> "Caution"],
     [bit |-> "black",            icon |-> Icons.black,            text |-> "Black"],
     [bit |-> "disqualify",       icon |-> Icons.disqualify,       text |-> "DQ"],
     [bit |-> "furled",           icon |-> Icons.furled,           text |-> "Warn"],
     [bit |-> "repair",           icon |-> Icons.repair,           text |-> "Damage"] >>

TableBits == {FlagTable[i].bit : i \in 1..Len(FlagTable)}

RECURSIVE FlagFramesFrom(_, _)
FlagFramesFrom(flags, i) ==
  IF i > Len(FlagTable) THEN <<>>
  ELSE (IF FlagTable[i].bit \in flags
        THEN <<Frame(FlagTable[i].icon, FlagTable[i].text)>>
        ELSE <<>>) \o FlagFramesFrom(flags, i + 1)

StartFrame == Frame(Icons.start_hidden, "Start")

\* the start_hidden check fires: the guard is set and a Start frame appended
StartFires(d, o, shown) ==
  o.enable_flags /\ "start_hidden" \in d.flags /\ ~shown

\* the local `flag` set by any bit of the mask other than start_hidden
FlagActiveAnyBit(d, o) ==
  o.enable_flags /\ (d.flags \ {"start_hidden"}) # {}

\* the local `flag` at the end of the flag checks
FlagActive(d, o) ==
  o.enable_flags /\ (d.flags \cap TableBits) # {}

BestLapChanged(d, sd, o) ==
  d.best_laptime # None /\ ~FlagActive(d, o) /\ sd.best_laptime # d.best_laptime

\* PositionChanged without the check of the local `flag`
PositionChangedDespiteFlag(d, sd, o) ==
  d.position # None /\ sd.position # d.position

PositionChanged(d, sd, o) ==
  d.position # None /\ ~FlagActive(d, o) /\ sd.position # d.position

LapsChanged(d, sd, o) ==
  d.laps # None /\ ~FlagActive(d, o) /\ sd.laps # d.laps

PositionIcon(d, sd) ==
  IF sd.position # None /\ StrLess(sd.position, d.position)
  THEN Icons.lose_position
  ELSE Icons.gain_position

\* CycleFrames followed by an iRating frame in every cycle that built a frame
CycleFramesWithRating(d, sd, o, shown) ==
  LET frames ==
        (IF StartFires(d, o, shown) THEN <<StartFrame>> ELSE <<>>)
        \o (IF o.enable_flags THEN FlagFramesFrom(d.flags, 1) ELSE <<>>)
        \o (IF BestLapChanged(d, sd, o) /\ o.enable_bestlap
            THEN <<Frame(Icons.purple, d.best_laptime)>> ELSE <<>>)
        \o (IF PositionChanged(d, sd, o) /\ o.enable_position
            THEN <<Frame(PositionIcon(d, sd), PyStr(d.position))>> ELSE <<>>)
        \o (IF LapsChanged(d, sd, o) /\ o.enable_laps
            THEN <<Frame(Icons.laps, PyStr(d.laps))>> ELSE <<>>)
  IN  IF frames = <<>> THEN <<>>
      ELSE frames \o <<Frame(Icons.ir, FormatThousands(1350))>>

\* CycleFrames with the three field checks chained by elif: only the first
\* changed field gives a frame
CycleFramesFirstOnly(d, sd, o, shown) ==
  (IF StartFires(d, o, shown) THEN <<StartFrame>> ELSE <<>>)
  \o (IF o.enable_flags THEN FlagFramesFrom(d.flags, 1) ELSE <<>>)
  \o (IF BestLapChanged(d, sd, o) /\ o.enable_bestlap
      THEN <<Frame(Icons.purple, d.best_laptime)>>
      ELSE IF PositionChanged(d, sd, o) /\ o.enable_position
      THEN <<Frame(PositionIcon(d, sd), PyStr(d.position))>>
      ELSE IF LapsChanged(d, sd, o) /\ o.enable_laps
      THEN <<Frame(Icons.laps, PyStr(d.laps))>>
      ELSE <<>>)

\* the list `frames` when process_data reaches `if len(frames) > 0`
CycleFrames(d, sd, o, shown) ==
  (IF StartFires(d, o, shown) THEN <<StartFrame>> ELSE <<>>)
  \o (IF o.enable_flags THEN FlagFramesFrom(d.flags, 1) ELSE <<>>)
  \o (IF BestLapChanged(d, sd, o) /\ o.enable_bestlap
      THEN <<Frame(Icons.purple, d.best_laptime)>> ELSE <<>>)
  \o (IF PositionChanged(d, sd, o) /\ o.enable_position
      THEN <<Frame(PositionIcon(d, sd), PyStr(d.position))>> ELSE <<>>)
  \o (IF LapsChanged(d, sd, o) /\ o.enable_laps
      THEN <<Frame(Icons.laps, PyStr(d.laps))>> ELSE <<>>)

\* CycleNotification with the sticky model of the flag case in both cases
CycleNotificationSticky(d, o, frames) ==
  Notification("critical", "none", Model(0, frames))

\* CycleNotification with the brief model of the field case in both cases
CycleNotificationBrief(d, o, frames) ==
  Notification("critical", "none", Model(1, frames))

\* the notification process_data builds from a non-empty list of frames
CycleNotification(d, o, frames) ==
  IF FlagActive(d, o)
  THEN Notification("critical", "none", Model(0, frames))
  ELSE Notification("critical", "none", Model(1, frames))

(***************************************************************************)
(* send_ratings / send_default_display: the notification of the default    *)
(* display, <<>> when none is built.                                       *)
(***************************************************************************)
LicenseIcon(letter) ==
  CASE letter = "R" -> Icons.license_letter_r
    [] letter = "D" -> Icons.license_letter_d
    [] letter = "C" -> Icons.license_letter_c
    [] letter = "B" -> Icons.license_letter_b
    [] letter = "A" -> Icons.license_letter_a
    [] letter = "P" -> Icons.license_letter_p
    [] OTHER -> Icons.ir

RatingFrames(drv, o) ==
  (IF o.enable_irating
   THEN <<Frame(Icons.ir, FormatThousands(drv.irating))>> ELSE <<>>)
  \o (IF o.enable_license
      THEN <<Frame(LicenseIcon(drv.license_letter), FormatFloat(drv.safety_rating))>>
      ELSE <<>>)

\* send_ratings without the check of len(frames)
RatingsNotificationUnguarded(drv, o) ==
  LET frames == RatingFrames(drv, o)
      cycles == IF o.default_display = "ratings" THEN 0 ELSE 2
  IN  <<Notification("info", "none", Model(cycles, frames))>>

RatingsNotification(drv, o) ==
  LET frames == RatingFrames(drv, o)
      cycles == IF o.default_display = "ratings" THEN 0 ELSE 2
  IN  IF Len(frames) > 0
      THEN <<Notification("info", "none", Model(cycles, frames))>>
      ELSE <<>>

DefaultNotification(d, drv, o) ==
  IF o.default_display = "ratings" THEN RatingsNotification(drv, o)
  ELSE IF o.default_display = "position"
  THEN <<Notification("info", "none", Model(0, <<Frame(Icons.position, PyStr(d.position))>>))>>
  ELSE IF o.default_display = "laps"
  THEN <<Notification("info", "none", Model(0, <<Frame(Icons.laps, PyStr(d.laps))>>))>>
  ELSE IF o.default_display = "bestlaps"
  THEN <<Notification("info", "none", Model(0, <<Frame(Icons.purple, PyStr(d.best_laptime))>>))>>
  ELSE <<>>

\* what process_data hands to send_notification, <<>> when nothing
ProcessNotification(d, sd, drv, o, shown) ==
  LET frames == CycleFrames(d, sd, o, shown)
  IN  IF Len(frames) > 0
      THEN <<CycleNotification(d, o, frames)>>
      ELSE DefaultNotification(d, drv, o)

\* every value of the Options object: the check boxes, and the short names
\* of the combo box entries together with the name send_default_display
\* tests for the best lap
AllOptions ==
  [ enable_irating : BOOLEAN, enable_license : BOOLEAN, enable_flags : BOOLEAN,
    enable_laps : BOOLEAN, enable_bestlap : BOOLEAN, enable_position : BOOLEAN,
    default_display : {"ratings", "position", "laps", "bestlap", "bestlaps"} ]

(***************************************************************************)
(* Inputs: what the Telemetry Source, the device and the GUI can supply.   *)
(***************************************************************************)
\* one telemetry frame, in a field of 20 cars with 9 laps remaining; the best
\* lap time in tenths of a millisecond
Tel(classPos, bestLap, lapCompleted, flags) ==
  [ PlayerCarClassPosition |-> classPos,
    nDrivers               |-> 20,
    LapBestLapTime         |-> bestLap,
    LapCompleted           |-> lapCompleted,
    SessionLapsRemainEx    |-> 9,
    SessionFlags           |-> flags ]

\* A run of the application: the frames the simulator produces during the
\* run, and the state of the check boxes and the combo box of MainWindow
\* (as restored from the saved settings; default_display is the short name
\* of the selected entry).
Runs ==
  { \* lap, best lap and position changes
    [ frames  |-> { Tel(5, 0, 0, {}), Tel(3, 705000, 0, {}),
                    Tel(3, 705000, 1, {}), Tel(5, 705000, 1, {"serviceable"}) },
      widgets |-> DefaultOptions ],
    \* race-control flags
    [ frames  |-> { Tel(5, 0, 0, {}), Tel(5, 0, 0, {"start_hidden"}),
                    Tel(5, 0, 0, {"checkered"}),
                    Tel(3, 705000, 0, {"start_hidden", "checkered"}) },
      widgets |-> DefaultOptions ],
    \* flags switched off
    [ frames  |-> { Tel(5, 0, 0, {"start_hidden"}), Tel(3, 0, 0, {"checkered"}) },
      widgets |-> [DefaultOptions EXCEPT !.enable_flags = FALSE] ],
    \* no rating frame
    [ frames  |-> { Tel(5, 0, 0, {}), Tel(5, 0, 0, {"start_hidden"}) },
      widgets |-> [DefaultOptions EXCEPT !.enable_irating = FALSE,
                                         !.enable_license = FALSE] ],
    \* the position as default display, no position events
    [ frames  |-> { Tel(5, 0, 0, {}), Tel(3, 0, 0, {}) },
      widgets |-> [DefaultOptions EXCEPT !.enable_position = FALSE,
                                         !.default_display = "position"] ] }

\* best lap times the simulator reports, in tenths of a millisecond: 0.0001 s,
\* 9.05 s, 9.999 s, 9.9996 s, 10 s, 59.999 s, 59.9996 s, 60 s, 63.4 s, 70.5 s
LapTimes ==
  { 1, 90500, 99990, 99996, 100000, 599990, 599996, 600000, 634000, 705000 }

\* laps completed and laps remaining the simulator reports; 32767 stands for
\* an unlimited session
LapCounts == {0, 1, 2}

LapsRemaining == {9, 31999, 32000, 32767}

\* runs of the application that exercise the formatting of data_collection
FormatRuns ==
  { [ frames  |-> { Tel(5, t, 0, {}) : t \in LapTimes },
      widgets |-> DefaultOptions ],
    [ frames  |-> { [Tel(5, 0, c, {}) EXCEPT !.SessionLapsRemainEx = r] :
                      c \in LapCounts, r \in LapsRemaining },
      widgets |-> DefaultOptions ] }

\* the names of the bits of irsdk's Flags
AllFlagBits ==
  TableBits \cup {"start_hidden", "serviceable", "start_ready", "start_set", "start_go"}

\* runs of the application that exercise the event checks of process_data
EventRuns ==
  { \* several flags at once, and bits process_data does not check
    [ frames  |-> { Tel(5, 0, 0, {}),
                    Tel(5, 0, 0, {"yellow", "red", "yellow_waving"}),
                    Tel(5, 0, 0, {"start_hidden", "crossed", "one_lap_to_green"}),
                    Tel(3, 0, 0, {"serviceable"}),
                    Tel(3, 0, 0, {"start_hidden", "serviceable"}),
                    Tel(5, 0, 0, {"checkered", "repair", "start_go"}) },
      widgets |-> DefaultOptions ],
    \* ranks of one and of two digits, fields of 20 and of 19 cars
    [ frames  |-> { [Tel(p, 0, 0, {}) EXCEPT !.nDrivers = n] :
                      p \in {9, 10}, n \in {19, 20} },
      widgets |-> DefaultOptions ],
    \* two values of each of best lap, position and laps
    [ frames  |-> { Tel(p, t, c, {}) :
                      p \in {3, 5}, t \in {700000, 705000}, c \in {1, 2} },
      widgets |-> DefaultOptions ] }

\* DriverInfo: the roster entry of the local car
Rosters ==
  { [CarIdx |-> 0, IRating |-> 1350, LicLetter |-> "A", LicRating |-> 345] }

NewId == "2"

QueueIds == {"1", "2", "3"}

SendAnswers ==
  { Answer("ok", SuccessBody(NewId)), Answer("ok", ErrorsBody),
    Answer("timeout", NoBody), Answer("status", NoBody),
    Answer("malformed", NoBody) }

QueueAnswers ==
  { Answer("ok", ListBody(<<[id |-> "1", cycles |-> 0], [id |-> "2", cycles |-> 0]>>)),
    Answer("ok", ListBody(<<[id |-> "1", cycles |-> 1], [id |-> "2", cycles |-> 0]>>)),
    Answer("ok", ListBody(<<[id |-> "1", cycles |-> 0], [id |-> "3", cycles |-> 0],
                            [id |-> "2", cycles |-> 0]>>)),
    Answer("ok", ListBody(<<>>)),
    Answer("ok", ErrorsBody),
    Answer("timeout", NoBody),
    Answer("malformed", NoBody) }

DeleteAnswers ==
  { [i \in QueueIds |-> a] :
      a \in { Answer("ok", SuccessBody("")), Answer("ok", ErrorsBody),
              Answer("timeout", NoBody), Answer("malformed", NoBody) } }

(***************************************************************************)
(* State.                                                                  *)
(***************************************************************************)
VARIABLES
  active,       \* MainWorker._active
  pc,           \* where run() is: "idle", "loop", "connect", "collect",
                \* "process", "stopped" (run returned), "crashed"
  crash,        \* what the exception that ended run() came from
  simUp,        \* the simulator is running (the source reports connected)
  irInit,       \* ir.is_initialized
  state,        \* State: ir_connected, previous_data_sent, start_hidden_shown
  data,         \* MainWorker.data
  sent_data,    \* MainWorker.sent_data
  driver,       \* MainWorker.driver
  options,      \* MainWorker.options
  gui,          \* the run: the widgets of MainWindow and the simulator's frames
  slotPending,  \* connected_to_iracing emitted, slot not yet run
  cycles,       \* process_data calls so far
  connects,     \* connected() calls so far
  settings,     \* QSettings holds the device IP and the API key
  \* history of the run, for the properties
  last,         \* what the latest handler did
  sameSnap,     \* the snapshot collected equals the one of the cycle before
  okSent,       \* the payload of the latest send the device accepted
  sentConn,     \* the connection during which previous_data_sent was assigned
  startRun,     \* consecutive cycles with only start_hidden set (capped)
  startSent,    \* Start notifications the device accepted, this connection
  checked,      \* what the latest connectivity check of run() read
  frame,        \* the telemetry frame data_collection read last
  inflight,     \* executions of the pipeline begun and not ended
  alias,        \* sent_data and data name the same Data object (test.py)
  sigLog,       \* the connected/disconnected signals emitted so far, in order
  updates,      \* the value the latest emit of each *_update signal carried
  device        \* the LaMetric device, when it is modelled: its queue

vars ==
  << active, pc, crash, simUp, irInit, state, data, sent_data, driver, options,
     gui, slotPending, cycles, connects, settings, last, sameSnap, okSent,
     sentConn, startRun, startSent, checked, frame, inflight, alias, sigLog,
     updates, device >>

\* what call_lametric_api gets for a request the device would answer with a:
\* without the IP or the key in the settings no request is made
Request(a) == IF settings THEN a ELSE Answer("no_settings", a.body)

(***************************************************************************)
(* The device, when it is modelled (device.on): it answers every request,  *)
(* gives a notification it accepts the next id, lists its queue in the     *)
(* order of arrival and removes a notification on DELETE.  A queue entry   *)
(* is [id, cycles, priority].  When it is not modelled the answers to the  *)
(* requests are free inputs (SendAnswers, QueueAnswers, DeleteAnswers).    *)
(***************************************************************************)
NoDevice == [on |-> FALSE, queue |-> <<>>, next |-> 1]

DeviceEntry(id, n) ==
  [id |-> id, cycles |-> n.model.cycles, priority |-> n.priority]

DeviceQueueAnswer(q) == Answer("ok", ListBody(q))

DeviceDeleteAnswers(q) ==
  [i \in {q[k].id : k \in 1..Len(q)} |-> Answer("ok", SuccessBody(""))]

\* the queue q without the notifications whose id occurs in ids
RECURSIVE Without(_, _)
Without(q, ids) ==
  IF q = <<>> THEN <<>>
  ELSE (IF \E k \in 1..Len(ids) : ids[k] = Head(q).id THEN <<>> ELSE <<Head(q)>>)
       \o Without(Tail(q), ids)

\* the dismissal pass dismiss_notifications(excluding) makes on the queue q
DevicePass(excluding, q) ==
  DismissNotifications(excluding, DeviceQueueAnswer(q), DeviceDeleteAnswers(q))

\* the device after a dismiss_notifications() call without `excluding`
DeviceDismissed(dev) ==
  IF dev.on
  THEN [dev EXCEPT !.queue = Without(@, DevicePass(None, @).deleted)]
  ELSE dev

\* the device after the send_notification call for n that gave result r
DeviceSent(dev, n, r) ==
  IF dev.on /\ r.outcome = "sent"
  THEN [dev EXCEPT
          !.queue = Without(Append(@, DeviceEntry(ToString(dev.next), n)), r.deleted),
          !.next = @ + 1]
  ELSE dev

\* the entries of the queue q that are no longer in the queue of dev
RECURSIVE Removed(_, _)
Removed(q, dev) ==
  IF q = <<>> THEN <<>>
  ELSE (IF \E k \in 1..Len(dev.queue) : dev.queue[k].id = Head(q).id
        THEN <<>> ELSE <<Head(q)>>) \o Removed(Tail(q), dev)

\* every result send_notification can have on the device dev: the one the
\* modelled device gives, or one for each choice of answers
SendResultsOn(dev, n, prev) ==
  IF dev.on
  THEN LET q == Append(dev.queue, DeviceEntry(ToString(dev.next), n))
       IN  { SendNotification(n, prev,
                              Request(Answer("ok", SuccessBody(ToString(dev.next)))),
                              Request(DeviceQueueAnswer(q)),
                              DeviceDeleteAnswers(q)) }
  ELSE { SendNotification(n, prev, Request(sa), Request(qa),
                          [i \in QueueIds |-> Request(da[i])]) :
           sa \in SendAnswers, qa \in QueueAnswers, da \in DeleteAnswers }

\* every result send_notification can have, over the answers of the device
SendResults(n, prev) == SendResultsOn(device, n, prev)

\* every exception a dismiss_notifications() call without `excluding` can end in
DismissResults ==
  IF device.on
  THEN { DevicePass(None, device.queue).exc }
  ELSE { DismissNotifications(None, Request(qa),
                              [i \in QueueIds |-> Request(da[i])]).exc :
           qa \in QueueAnswers, da \in DeleteAnswers }

\* the value the latest emit of each of best_laptime_update, position_update
\* and laps_update carried; None before the first emit
NoUpdates == [best_laptime |-> None, position |-> None, laps |-> None]

\* last: kind is the handler ("connected", "cycle"; "gui" and "disconnected"
\* when the options or the connection changed since); handed the notification
\* given to send_notification; outcome its outcome; recorded whether
\* previous_data_sent was assigned; events whether process_data built frames;
\* flag its flag indicator; startFired whether the Start frame was appended;
\* changed the fields whose change gave a frame; dup whether the device
\* accepted the payload it had accepted just before; stale whether the
\* payload was suppressed by one recorded during an earlier connection;
\* same, prevFailed, prevQuiet, retried relate the cycle to the one before
\* when both collected the same snapshot; conn whether the handler was
\* connected(); sends the calls of the Transport send made so far by the
\* iteration of run() the handler belongs to; sameFrames whether the frames
\* handed equal the frames of the latest payload the device accepted;
\* emitted (test.py) the Data values of the latest cycle whose notification
\* the device accepted, <<>> when there is none; removed the entries the
\* handler's dismissal pass removed from the queue of the modelled device.
NoLast ==
  [ kind |-> "none", handed |-> <<>>, outcome |-> "none", recorded |-> FALSE,
    events |-> FALSE, flag |-> FALSE, startFired |-> FALSE, changed |-> {},
    differ |-> {}, dismissal |-> "none", conn |-> FALSE, sends |-> 0,
    sameFrames |-> FALSE, emitted |-> <<>>, removed |-> <<>>,
    dup |-> FALSE, stale |-> FALSE, same |-> FALSE, prevFailed |-> FALSE,
    prevQuiet |-> FALSE, retried |-> FALSE ]

InitWith(runs, dev) ==
  /\ active = FALSE
  /\ pc = "idle"
  /\ crash = "none"
  /\ simUp \in BOOLEAN
  /\ irInit = FALSE
  /\ state = [ir_connected |-> FALSE, previous_data_sent |-> <<>>,
              start_hidden_shown |-> FALSE]
  /\ data = EmptyData
  /\ sent_data = EmptyData
  /\ driver = EmptyDriver
  /\ options = DefaultOptions
  /\ gui \in runs
  /\ slotPending = FALSE
  /\ cycles = 0
  /\ connects = 0
  /\ last = NoLast
  /\ sameSnap = FALSE
  /\ okSent = <<>>
  /\ sentConn = 0
  /\ startRun = 0
  /\ startSent = 0
  /\ settings \in BOOLEAN
  /\ checked = "none"
  /\ frame = Tel(0, 0, 0, {})
  /\ inflight = 0
  /\ alias = FALSE
  /\ sigLog = <<>>
  /\ updates = NoUpdates
  /\ device = dev

\* the application with the answers of the device left free
InitOf(runs) == InitWith(runs, NoDevice)

Init == InitOf(Runs)

(***************************************************************************)
(* The environment: the simulator and the GUI thread.                      *)
(*                                                                         *)
(* The worker reads the source in the loop condition of run(), in          *)
(* connected() and in data_collection(), and reads _active in the loop     *)
(* condition only.  A change of the simulator or of _active is placed at   *)
(* the points where the worker can next observe it: a change at any other  *)
(* moment is observed as the same change made at the next such point.      *)
(***************************************************************************)
SourceRead == pc \in {"loop", "connect", "collect"}

SimStart ==
  /\ SourceRead
  /\ ~simUp
  /\ simUp' = TRUE
  /\ UNCHANGED << alias, sigLog, updates, device, active, pc, crash, irInit, state, data, sent_data, driver,
                  options, gui, slotPending, cycles, connects, last,
                  sameSnap, okSent, sentConn, startRun, startSent,
                  settings, checked, inflight, frame >>

SimStop ==
  /\ SourceRead
  /\ simUp
  /\ simUp' = FALSE
  /\ UNCHANGED << alias, sigLog, updates, device, active, pc, crash, irInit, state, data, sent_data, driver,
                  options, gui, slotPending, cycles, connects, last,
                  sameSnap, okSent, sentConn, startRun, startSent,
                  settings, checked, inflight, frame >>

\* MainWindow.connected_to_iracing: the slot of the signal connected() emits
\* writes every option of the worker from the widgets
GuiConnectedSlot ==
  /\ slotPending
  /\ slotPending' = FALSE
  /\ options' = gui.widgets
  /\ last' = IF options' # options THEN [last EXCEPT !.kind = "gui"] ELSE last
  /\ sameSnap' = (sameSnap /\ options' = options)
  /\ UNCHANGED << alias, sigLog, updates, device, active, pc, crash, simUp, irInit, state, data, sent_data,
                  driver, gui, cycles, connects, okSent, sentConn,
                  startRun, startSent,
                  settings, checked, inflight, frame >>

\* MainWindow.closeEvent -> MainWorker.deactivate
Deactivate ==
  /\ pc = "loop"
  /\ active
  /\ active' = FALSE
  /\ UNCHANGED << alias, sigLog, updates, device, pc, crash, simUp, irInit, state, data, sent_data, driver,
                  options, gui, slotPending, cycles, connects, last,
                  sameSnap, okSent, sentConn, startRun, startSent,
                  settings, checked, inflight, frame >>

(***************************************************************************)
(* MainWorker.run.                                                         *)
(***************************************************************************)
\* a loop head evaluated while the previous iteration is still in process_data
LoopHeadReentrant == pc \in {"loop", "process"}

\* run() is at `while self._active`: the previous iteration has ended
LoopHead == pc = "loop"

\* an iteration of run() is between its connectivity check and its end
InIteration == pc \in {"connect", "collect", "process"}

\* a loop condition that does not read _active
LoopConditionForever == TRUE

\* the condition of `while self._active`
LoopCondition == active

\* root.main_worker.start(): run() begins
RunStart ==
  /\ pc = "idle"
  /\ pc' = "loop"
  /\ active' = TRUE
  /\ UNCHANGED << alias, sigLog, updates, device, crash, simUp, irInit, state, data, sent_data, driver, options,
                  gui, slotPending, cycles, connects, last, sameSnap,
                  okSent, sentConn, startRun, startSent,
                  settings, checked, inflight, frame >>

\* `while self._active` is false: run() returns
RunExit ==
  /\ LoopHead
  /\ ~LoopCondition
  /\ pc' = "stopped"
  /\ UNCHANGED << alias, sigLog, updates, device, active, crash, simUp, irInit, state, data, sent_data, driver,
                  options, gui, slotPending, cycles, connects, last,
                  sameSnap, okSent, sentConn, startRun, startSent,
                  settings, checked, inflight, frame >>

\* `if self.ir.is_initialized and self.ir.is_connected` is true
RunCheckConnected ==
  /\ LoopHead
  /\ LoopCondition
  /\ irInit /\ simUp
  /\ IF state.ir_connected
     THEN cycles < MaxCycles /\ pc' = "collect"
     ELSE connects < MaxConnects /\ pc' = "connect"
  /\ UNCHANGED << alias, sigLog, updates, device, active, crash, simUp, irInit, state, data, sent_data, driver,
                  options, gui, slotPending, cycles, connects, last,
                  sameSnap, okSent, sentConn, startRun, startSent,
                  settings, frame >>
  /\ checked' = "up"
  /\ inflight' = inflight + 1

\* the signal of the else branch of run() emitted on every pass
DisconnectedSignalUnguarded(st) == <<"disconnected">>

\* the signal the else branch of run() emits: `if self.state.ir_connected`
DisconnectedSignal(st) ==
  IF st.ir_connected THEN <<"disconnected">> ELSE <<>>

\* the else branch: signal the disconnect, retry ir.startup, sleep
RunDisconnected ==
  /\ LoopHead
  /\ LoopCondition
  /\ ~(irInit /\ simUp)
  /\ sigLog' = sigLog \o DisconnectedSignal(state)
  /\ state' = [state EXCEPT !.ir_connected = FALSE]
  /\ irInit' = (irInit \/ simUp)
  /\ last' = IF state.ir_connected THEN [NoLast EXCEPT !.kind = "disconnected"] ELSE last
  /\ sameSnap' = (sameSnap /\ ~state.ir_connected)
  /\ UNCHANGED << alias, updates, device, active, pc, crash, simUp, data, sent_data, driver, options,
                  gui, slotPending, cycles, connects, okSent, sentConn,
                  startRun, startSent,
                  settings, inflight, frame >>
  /\ checked' = "down"

\* previous_data_sent was assigned by the call that gave result r
Recorded(n, r) == r.prev # state.previous_data_sent

\* the ids of the queued notifications other than `excluding` with cycles 0
RECURSIVE Dismissable(_, _)
Dismissable(items, excluding) ==
  IF items = <<>> THEN <<>>
  ELSE (IF Head(items).id # excluding /\ Head(items).cycles = 0
        THEN <<Head(items).id>> ELSE <<>>) \o Dismissable(Tail(items), excluding)

\* the dismissal pass of the call that gave result r, against the queue it
\* listed: "none" (no pass, or no list), "exact" (a DELETE for each
\* dismissable notification and no other), "wrong" (a DELETE for the
\* notification just sent or for one with cycles other than 0), "short"
DismissalOf(r) ==
  IF r.outcome # "sent" \/ r.queued = <<>> THEN "none"
  ELSE IF r.deleted = Dismissable(r.queued, NewId) THEN "exact"
  ELSE IF \E i \in 1..Len(r.deleted) :
            \/ r.deleted[i] = NewId
            \/ \E j \in 1..Len(r.queued) :
                 r.queued[j].id = r.deleted[i] /\ r.queued[j].cycles # 0
  THEN "wrong"
  ELSE "short"

\* the history record of a handler that handed n to send_notification
Handed(kind, n, r, d, o) ==
  [ NoLast EXCEPT
      !.dismissal = DismissalOf(r),
      !.kind     = kind,
      !.handed   = <<n>>,
      !.outcome  = r.outcome,
      !.recorded = Recorded(n, r),
      !.flag     = FlagActive(d, o),
      !.dup      = (r.outcome = "sent" /\ <<n>> = okSent),
      !.sends    = IF r.outcome \in {"failed", "sent", "raised"} THEN 1 ELSE 0,
      !.sameFrames = (okSent # <<>> /\ okSent[1].model.frames = n.model.frames),
      !.stale    = (r.outcome = "suppressed" /\ sentConn < connects') ]

\* connected(): called by run() on the transition to Connected
Connected ==
  /\ pc = "connect"
  /\ connects' = connects + 1
  /\ startRun' = 0
  /\ startSent' = 0
  /\ sameSnap' = FALSE
  /\ UNCHANGED << alias, updates, active, simUp, irInit, data, sent_data, options,
                  gui, cycles, settings, checked, frame >>
  /\ IF ~simUp
     THEN \* the source is gone: ir['DriverInfo'] is None, the subscript raises
          /\ pc' = "crashed"
          /\ crash' = "telemetry"
          /\ last' = [NoLast EXCEPT !.kind = "connected", !.conn = TRUE]
          /\ UNCHANGED << state, driver, slotPending, okSent, sentConn, device >>
     ELSE \E dvr \in Rosters, dexc \in DismissResults :
            /\ driver' = [ caridx         |-> dvr.CarIdx,
                           irating        |-> dvr.IRating,
                           license_letter |-> dvr.LicLetter,
                           safety_rating  |-> dvr.LicRating ]
            /\ IF dexc # "none"
               THEN /\ pc' = "crashed"
                    /\ crash' = "transport"
                    /\ last' = [NoLast EXCEPT !.kind = "connected", !.conn = TRUE]
                    /\ device' = DeviceDismissed(device)
                    /\ UNCHANGED << state, slotPending, okSent, sentConn >>
               ELSE LET rn == RatingsNotification(driver', options)
                        dev == DeviceDismissed(device)
                    IN  IF rn = <<>>
                        THEN /\ pc' = "collect"
                             /\ crash' = crash
                             /\ state' = [state EXCEPT !.ir_connected = TRUE,
                                                       !.start_hidden_shown = FALSE]
                             /\ slotPending' = TRUE
                             /\ last' = [NoLast EXCEPT !.kind = "connected", !.conn = TRUE]
                             /\ device' = dev
                             /\ UNCHANGED << okSent, sentConn >>
                        ELSE \E r \in SendResultsOn(dev, rn[1], state.previous_data_sent) :
                               /\ last' = [Handed("connected", rn[1], r, data, options)
                                             EXCEPT !.conn = TRUE]
                               /\ okSent' = IF r.outcome = "sent" THEN rn ELSE okSent
                               /\ sentConn' = IF Recorded(rn[1], r) THEN connects' ELSE sentConn
                               /\ device' = DeviceSent(dev, rn[1], r)
                               /\ IF r.exc # "none"
                                  THEN /\ pc' = "crashed"
                                       /\ crash' = "transport"
                                       /\ state' = [state EXCEPT !.previous_data_sent = r.prev]
                                       /\ UNCHANGED slotPending
                                  ELSE /\ pc' = "collect"
                                       /\ crash' = crash
                                       /\ state' = [ ir_connected       |-> TRUE,
                                                     previous_data_sent |-> r.prev,
                                                     start_hidden_shown |-> FALSE ]
                                       /\ slotPending' = TRUE
  \* connected_to_iracing is emitted when dismiss_notifications and
  \* send_ratings have returned
  /\ sigLog' = IF pc' = "crashed" THEN sigLog ELSE Append(sigLog, "connected")
  \* an exception ends the execution of the pipeline
  /\ inflight' = IF pc' = "crashed" THEN inflight - 1 ELSE inflight

\* data_collection() (and calculate_positions(), which reads the source too
\* and writes only self.cars)
DataCollection ==
  /\ pc = "collect"
  /\ UNCHANGED << alias, sigLog, updates, device, active, simUp, irInit, state, sent_data, driver, options,
                  gui, slotPending, cycles, connects, last, okSent,
                  sentConn, startRun, startSent,
                  settings, checked >>
  /\ IF ~simUp
     THEN \* the reads yield None: int(None) raises a TypeError
          /\ pc' = "crashed"
          /\ crash' = "telemetry"
          /\ UNCHANGED << data, sameSnap, frame >>
     ELSE \E tel \in gui.frames :
            /\ frame' = tel
            /\ data' = CollectData(data, tel)
            /\ sameSnap' = (last.kind = "cycle" /\ data' = data)
            /\ pc' = "process"
            /\ crash' = crash
  \* an exception ends the execution of the pipeline
  /\ inflight' = IF pc' = "crashed" THEN inflight - 1 ELSE inflight

\* the fields whose value differs from the value last sent
DifferingFields(d, sd) ==
  (IF d.best_laptime # None /\ sd.best_laptime # d.best_laptime
   THEN {"best_laptime"} ELSE {})
  \cup (IF d.position # None /\ sd.position # d.position THEN {"position"} ELSE {})
  \cup (IF d.laps # None /\ sd.laps # d.laps THEN {"laps"} ELSE {})

\* the fields whose change gave a frame in this cycle
ChangedFields(d, sd, o) ==
  (IF BestLapChanged(d, sd, o) /\ o.enable_bestlap THEN {"best_laptime"} ELSE {})
  \cup (IF PositionChanged(d, sd, o) /\ o.enable_position THEN {"position"} ELSE {})
  \cup (IF LapsChanged(d, sd, o) /\ o.enable_laps THEN {"laps"} ELSE {})

Min(a, b) == IF a < b THEN a ELSE b

\* how a cycle relates to the cycle before, when both collected the same
\* snapshot: that one's send failed; that one built no event frame and left
\* its notification recorded as transmitted; this one hands the same
\* notification to the Transport again
Relate(rec, n, attempted) ==
  [ rec EXCEPT
      !.sends      = (IF last.conn THEN last.sends ELSE 0)
                       + (IF attempted THEN 1 ELSE 0),
      !.same       = sameSnap,
      !.prevFailed = (sameSnap /\ last.outcome = "failed"),
      !.prevQuiet  = (sameSnap /\ ~last.events
                        /\ (last.handed = <<>> \/ last.recorded
                              \/ last.outcome = "suppressed")),
      !.retried    = (sameSnap /\ attempted /\ n = last.handed) ]

\* the end of a process_data call that handed n to send_notification with
\* result r; copy_data runs when no exception left send_notification
CycleSend(n, r, fromEvents) ==
  LET fired == StartFires(data, options, state.start_hidden_shown)
      onlyStart == options.enable_flags /\ data.flags = {"start_hidden"}
      rec == [ Handed("cycle", n, r, data, options) EXCEPT
                 !.events = fromEvents,
                 !.startFired = fired,
                 !.differ = DifferingFields(data, sent_data),
                 !.changed = IF fromEvents
                             THEN ChangedFields(data, sent_data, options)
                             ELSE {} ]
  IN  /\ last' = [ Relate(rec, <<n>>, r.outcome \in {"failed", "sent", "raised"})
                     EXCEPT !.removed = Removed(device.queue, DeviceSent(device, n, r)) ]
      /\ okSent' = IF r.outcome = "sent" THEN <<n>> ELSE okSent
      /\ sentConn' = IF Recorded(n, r) THEN connects ELSE sentConn
      /\ startRun' = IF onlyStart THEN Min(startRun + 1, 2) ELSE 0
      /\ startSent' = IF fired /\ r.outcome = "sent"
                      THEN Min(startSent + 1, 2) ELSE startSent
      /\ state' = [state EXCEPT !.previous_data_sent = r.prev,
                                !.start_hidden_shown = (@ \/ fired)]
      /\ device' = DeviceSent(device, n, r)
      /\ IF r.exc # "none"
         THEN /\ pc' = "crashed"
              /\ crash' = "transport"
              /\ UNCHANGED sent_data
         ELSE /\ pc' = "loop"
              /\ crash' = crash
              /\ sent_data' = IF fromEvents THEN data ELSE sent_data

\* the end of a process_data call that handed nothing to send_notification;
\* exc is the exception that left the dismissal pass of send_default_display
\* and dev the device after it
CycleNoSend(exc, dev) ==
  LET onlyStart == options.enable_flags /\ data.flags = {"start_hidden"}
  IN  /\ last' = Relate([NoLast EXCEPT !.kind = "cycle",
                                       !.removed = Removed(device.queue, dev)],
                          <<>>, FALSE)
      /\ device' = dev
      /\ startRun' = IF onlyStart THEN Min(startRun + 1, 2) ELSE 0
      /\ UNCHANGED << state, sent_data, okSent, sentConn, startSent >>
      /\ IF exc # "none"
         THEN pc' = "crashed" /\ crash' = "transport"
         ELSE pc' = "loop" /\ crash' = crash

\* the *_update signals process_data emits: one for each field that differs
\* from sent_data while no flag is active, whatever the enable_* options
SignalUpdates(u, d, sd, o) ==
  [ best_laptime |-> IF BestLapChanged(d, sd, o) THEN d.best_laptime
                     ELSE u.best_laptime,
    position     |-> IF PositionChanged(d, sd, o) THEN PyStr(d.position)
                     ELSE u.position,
    laps         |-> IF LapsChanged(d, sd, o) THEN PyStr(d.laps) ELSE u.laps ]

\* process_data(), with send_default_display() when no frame was built
ProcessData ==
  /\ pc = "process"
  /\ cycles' = cycles + 1
  /\ sameSnap' = FALSE
  /\ updates' = SignalUpdates(updates, data, sent_data, options)
  /\ UNCHANGED << alias, sigLog, active, simUp, irInit, data, driver, options, gui,
                  slotPending, connects,
                  settings, checked, frame >>
  /\ LET frames == CycleFrames(data, sent_data, options, state.start_hidden_shown)
     IN  IF Len(frames) > 0
         THEN LET n == CycleNotification(data, options, frames)
              IN  \E r \in SendResults(n, state.previous_data_sent) :
                    CycleSend(n, r, TRUE)
         ELSE LET dn == DefaultNotification(data, driver, options)
              IN  IF dn # <<>>
                  THEN \E r \in SendResults(dn[1], state.previous_data_sent) :
                         CycleSend(dn[1], r, FALSE)
                  ELSE IF options.default_display = "ratings"
                  THEN \E dexc \in DismissResults :
                         CycleNoSend(dexc, DeviceDismissed(device))
                  ELSE CycleNoSend("none", device)
  /\ inflight' = inflight - 1

Next ==
  \/ SimStart
  \/ SimStop
  \/ GuiConnectedSlot
  \/ Deactivate
  \/ RunStart
  \/ RunExit
  \/ RunCheckConnected
  \/ RunDisconnected
  \/ Connected
  \/ DataCollection
  \/ ProcessData

Spec == Init /\ [][Next]_vars

\* the application without settings, on the runs that exercise the formatting
FormatInit == InitOf(FormatRuns) /\ ~settings /\ simUp

FormatSpec == FormatInit /\ [][Next]_vars

\* the application without settings, on the runs that exercise the event
\* checks
EventInit == InitOf(EventRuns) /\ ~settings /\ simUp

EventSpec == EventInit /\ [][Next]_vars

\* the application with the ratings as default display, the settings present
\* and the device modelled: every Transport call succeeds
DeviceRuns == {r \in Runs : r.widgets.default_display = "ratings"}

DeviceInit == InitWith(DeviceRuns, [NoDevice EXCEPT !.on = TRUE]) /\ settings

DeviceSpec == DeviceInit /\ [][Next]_vars

\* MainWindow.default_display_options: the short names of the entries of the
\* combo box of the default display
DefaultDisplayOptions == {"ratings", "position", "laps", "bestlap"}

\* the application with each entry of the combo box selected in turn, on a
\* run whose frames repeat, so that cycles without an event frame occur
DisplayRuns ==
  { [ frames  |-> { Tel(5, 0, 0, {}), Tel(3, 705000, 1, {}) },
      widgets |-> [DefaultOptions EXCEPT !.default_display = dd] ] :
    dd \in DefaultDisplayOptions }

DisplaySpec == InitOf(DisplayRuns) /\ [][Next]_vars

(***************************************************************************)
(* Shutdown.  closeEvent may call deactivate() at any moment of an         *)
(* iteration; the worker thread keeps running until run() returns or an    *)
(* exception ends it, and every call it makes returns (the Transport calls *)
(* have a timeout of one second, the sleeps are finite).                   *)
(***************************************************************************)
\* MainWindow.closeEvent -> MainWorker.deactivate, during an iteration
DeactivateInCycle ==
  /\ InIteration
  /\ active
  /\ active' = FALSE
  /\ UNCHANGED << alias, sigLog, updates, device, pc, crash, simUp, irInit, state, data, sent_data, driver,
                  options, gui, slotPending, cycles, connects, last,
                  sameSnap, okSent, sentConn, startRun, startSent,
                  settings, checked, inflight, frame >>

\* a run with the settings present and the simulator showing flags
LiveInit ==
  /\ Init
  /\ settings
  /\ gui.widgets = DefaultOptions
  /\ \E tel \in gui.frames : "checkered" \in tel.SessionFlags

LiveNext == Next \/ DeactivateInCycle

\* the steps of the worker thread that make no Transport call
WorkerStep ==
  RunExit \/ RunCheckConnected \/ RunDisconnected \/ DataCollection

\* connected() and process_data() return or raise: every Transport call
\* they make returns within its timeout
CallsReturn == []<>(pc # "connect") /\ []<>(pc # "process")

LiveSpec == LiveInit /\ [][LiveNext]_vars /\ WF_vars(WorkerStep) /\ CallsReturn

(***************************************************************************)
(* src/test.py: the earlier version of the worker.  ConnectToIRacing waits *)
(* for the simulator; the slot MainWindow.connected_to_iracing then builds *)
(* a MainCycle from the check boxes and starts its run(), which reads the  *)
(* driver, dismisses the queue, sends the ratings and polls until the      *)
(* simulator is gone.  The fields of MainCycle are the variables state,     *)
(* data, sent_data, driver and options (enable_* only); pc is "idle"       *)
(* (waiting for the simulator), "start" (signal emitted), "connect" (run   *)
(* begins), "loop", "collect", "process", "slept" (the sleep after a       *)
(* cycle has ended), "stopped", "crashed".                                 *)
(***************************************************************************)
\* stands for the three characters the source file holds for the marker
TestInfinityMark == "@@@"

TestFormatLaps(lapCompleted, lapsRemain) ==
  LET laps_total == IF lapCompleted + lapsRemain > 32000
                    THEN TestInfinityMark
                    ELSE ToString(lapCompleted + lapsRemain)
  IN  ToString(lapCompleted) \o " / " \o laps_total

\* the Data object after MainCycle.data_collection has read the frame tel
\* (nDrivers stands for len(ir['CarIdxClassPosition']))
TestCollectData(d, tel) ==
  [ position     |-> IF tel.PlayerCarClassPosition > 0
                     THEN ToString(tel.PlayerCarClassPosition) \o " / "
                            \o ToString(tel.nDrivers)
                     ELSE d.position,
    best_laptime |-> IF tel.LapBestLapTime > 0
                     THEN FormatLapTime(tel.LapBestLapTime)
                     ELSE d.best_laptime,
    laps         |-> IF tel.LapCompleted > 0
                     THEN TestFormatLaps(tel.LapCompleted, tel.SessionLapsRemainEx)
                     ELSE d.laps,
    flags        |-> tel.SessionFlags ]

\* the flag checks of MainCycle.process_data: those of main.py, with the
\* text "Warning" for the furled flag
TestFlagTable ==
  [ i \in 1..Len(FlagTable) |->
      IF FlagTable[i].bit = "furled"
      THEN [FlagTable[i] EXCEPT !.text = "Warning"]
      ELSE FlagTable[i] ]

RECURSIVE TestFlagFramesFrom(_, _)
TestFlagFramesFrom(flags, i) ==
  IF i > Len(TestFlagTable) THEN <<>>
  ELSE (IF TestFlagTable[i].bit \in flags
        THEN <<Frame(TestFlagTable[i].icon, TestFlagTable[i].text)>>
        ELSE <<>>) \o TestFlagFramesFrom(flags, i + 1)

\* the list `frames` when MainCycle.process_data reaches `if len(frames) > 0`
TestCycleFrames(d, sd, o, shown) ==
  (IF StartFires(d, o, shown) THEN <<StartFrame>> ELSE <<>>)
  \o (IF o.enable_flags THEN TestFlagFramesFrom(d.flags, 1) ELSE <<>>)
  \o (IF BestLapChanged(d, sd, o) /\ o.enable_bestlap
      THEN <<Frame(Icons.purple, d.best_laptime)>> ELSE <<>>)
  \o (IF PositionChanged(d, sd, o) /\ o.enable_position
      THEN <<Frame(PositionIcon(d, sd), PyStr(d.position))>> ELSE <<>>)
  \o (IF LapsChanged(d, sd, o) /\ o.enable_laps
      THEN <<Frame(Icons.laps, PyStr(d.laps))>> ELSE <<>>)

\* MainCycle.send_ratings: the notification is built and sent inside
\* `if self.enable_license`
TestRatingsNotification(drv, o) ==
  IF o.enable_license
  THEN <<Notification("info", "none", Model(0, RatingFrames(drv, o)))>>
  ELSE <<>>

\* the queue as MainCycle reads it: notifications [id, priority]
TestQueueAnswers ==
  { Answer("ok", ListBody(<<[id |-> "1", priority |-> "critical"],
                            [id |-> "3", priority |-> "info"],
                            [id |-> "2", priority |-> "critical"]>>)),
    Answer("ok", ListBody(<<>>)),
    Answer("ok", ErrorsBody),
    Answer("timeout", NoBody),
    Answer("malformed", NoBody) }

\* MainCycle.dismiss_notification
TestDismissNotification(id, delAnswers) ==
  LET r == CallLametricApi("delete", delAnswers[id])
  IN  IF r.exc # "none" THEN r.exc
      ELSE IF r.res.kind = "None" THEN "none"
      ELSE IF r.res.kind = "success" THEN "none"
      ELSE "KeyError"

\* the loop of a dismissal over items; the exception that ends it
RECURSIVE TestDismissLoop(_, _, _)
TestDismissLoop(items, onlyCritical, delAnswers) ==
  IF items = <<>> THEN "none"
  ELSE IF onlyCritical /\ Head(items).priority # "critical"
  THEN TestDismissLoop(Tail(items), onlyCritical, delAnswers)
  ELSE LET e == TestDismissNotification(Head(items).id, delAnswers)
       IN  IF e # "none" THEN e
           ELSE TestDismissLoop(Tail(items), onlyCritical, delAnswers)

\* MainCycle.dismiss_all_notifications: the exception that leaves it
TestDismissAll(queueAnswer, delAnswers) ==
  LET q == CallLametricApi("queue", queueAnswer)
  IN  IF q.exc # "none" THEN q.exc
      ELSE IF q.res.kind = "None" THEN "none"
      ELSE IF q.res.kind = "list"
      THEN TestDismissLoop(q.res.items, FALSE, delAnswers)
      \* a JSON object: the loop runs over its keys, and key['id'] raises
      ELSE "TypeError"

\* MainCycle.dismiss_prior_notifications: the exception that leaves it
TestDismissPrior(queueAnswer, delAnswers) ==
  LET q == CallLametricApi("queue", queueAnswer)
  IN  IF q.exc # "none" THEN q.exc
      ELSE IF q.res.kind = "None" THEN "none"
      ELSE IF q.res.kind = "list"
      THEN IF q.res.items = <<>> THEN "none"
           ELSE TestDismissLoop(SubSeq(q.res.items, 1, Len(q.res.items) - 1),
                                TRUE, delAnswers)
      \* a JSON object: `del queue[-1]` raises
      ELSE "KeyError"

\* MainCycle.send_notification.  outcome: "suppressed" (equal to prev),
\* "failed" (the send gave no result: `"success" in None` raises a TypeError
\* that nothing catches), "rejected" (a result without "success"), "sent",
\* "raised" (the Transport call itself raised)
TestSendNotification(n, prev, sendAnswer, queueAnswer, delAnswers) ==
  IF <<n>> = prev
  THEN SendResult(prev, "suppressed", "none", NoPass)
  ELSE LET r == CallLametricApi("send", sendAnswer)
       IN  IF r.exc # "none"
           THEN SendResult(prev, "raised", r.exc, NoPass)
           ELSE IF r.res.kind = "None"
           THEN SendResult(prev, "failed", "TypeError", NoPass)
           ELSE IF r.res.kind # "success"
           THEN SendResult(prev, "rejected", "none", NoPass)
           ELSE LET e == TestDismissPrior(queueAnswer, delAnswers)
                IN  IF e = "none"
                    THEN SendResult(<<n>>, "sent", "none", NoPass)
                    ELSE SendResult(prev, "sent", e, NoPass)

TestSendResults(n, prev) ==
  { TestSendNotification(n, prev, Request(sa), Request(qa),
                         [i \in QueueIds |-> Request(da[i])]) :
      sa \in SendAnswers, qa \in TestQueueAnswers, da \in DeleteAnswers }

TestDismissAllResults ==
  { TestDismissAll(Request(qa), [i \in QueueIds |-> Request(da[i])]) :
      qa \in TestQueueAnswers, da \in DeleteAnswers }

\* ConnectToIRacing.run: returns, emitting connected_to_iracing, once the
\* simulator is running
ConnectToIRacingRun ==
  /\ pc = "idle"
  /\ simUp' = TRUE
  /\ pc' = "start"
  /\ sigLog' = Append(sigLog, "connected")
  /\ UNCHANGED << active, updates, device, crash, irInit, state, data, sent_data, driver,
                  options, gui, slotPending, cycles, connects, settings, last,
                  sameSnap, okSent, sentConn, startRun, startSent, checked,
                  frame, inflight, alias >>

\* MainWindow.connected_to_iracing (test.py): builds the MainCycle from the
\* check boxes and starts its thread
TestConnectedToIracing ==
  /\ pc = "start"
  /\ pc' = "connect"
  /\ options' = gui.widgets
  /\ UNCHANGED << active, sigLog, updates, device, crash, simUp, irInit, state, data, sent_data, driver,
                  gui, slotPending, cycles, connects, settings, last,
                  sameSnap, okSent, sentConn, startRun, startSent, checked,
                  frame, inflight, alias >>

\* MainCycle.run up to its loop: the driver, dismiss_all_notifications,
\* send_ratings
TestRunStart ==
  /\ pc = "connect"
  /\ connects < MaxConnects
  /\ connects' = connects + 1
  /\ UNCHANGED << active, sigLog, updates, device, simUp, data, sent_data, options, gui, slotPending,
                  cycles, settings, sameSnap, sentConn, startRun, startSent,
                  checked, frame, inflight, alias >>
  /\ IF ~simUp
     THEN \* the source is gone: ir['DriverInfo'] is None, the subscript raises
          /\ pc' = "crashed"
          /\ crash' = "telemetry"
          /\ last' = [NoLast EXCEPT !.kind = "connected"]
          /\ UNCHANGED << irInit, state, driver, okSent >>
     ELSE \E dvr \in Rosters, dexc \in TestDismissAllResults :
            /\ irInit' = TRUE
            /\ driver' = [ caridx         |-> dvr.CarIdx,
                           irating        |-> dvr.IRating,
                           license_letter |-> dvr.LicLetter,
                           safety_rating  |-> dvr.LicRating ]
            /\ IF dexc # "none"
               THEN /\ pc' = "crashed"
                    /\ crash' = "transport"
                    /\ last' = [NoLast EXCEPT !.kind = "connected"]
                    /\ UNCHANGED << state, okSent >>
               ELSE LET rn == TestRatingsNotification(driver', options)
                    IN  IF rn = <<>>
                        THEN /\ pc' = "loop"
                             /\ crash' = crash
                             /\ last' = [NoLast EXCEPT !.kind = "connected"]
                             /\ UNCHANGED << state, okSent >>
                        ELSE \E r \in TestSendResults(rn[1], state.previous_data_sent) :
                               /\ last' = Handed("connected", rn[1], r, data, options)
                               /\ okSent' = IF r.outcome = "sent" THEN rn ELSE okSent
                               /\ state' = [state EXCEPT !.previous_data_sent = r.prev]
                               /\ IF r.exc # "none"
                                  THEN pc' = "crashed" /\ crash' = "transport"
                                  ELSE pc' = "loop" /\ crash' = crash

\* `while self.ir.is_initialized and self.ir.is_connected` is true
TestLoopEnter ==
  /\ pc = "loop"
  /\ irInit /\ simUp
  /\ cycles < MaxCycles
  /\ pc' = "collect"
  /\ UNCHANGED << active, sigLog, updates, device, crash, simUp, irInit, state, data, sent_data, driver,
                  options, gui, slotPending, cycles, connects, settings, last,
                  sameSnap, okSent, sentConn, startRun, startSent, checked,
                  frame, inflight, alias >>

\* `while self.ir.is_initialized and self.ir.is_connected` is false: the else
\* clause of the loop calls ir.shutdown(), emits disconnected_from_iracing,
\* and run() returns
TestLoopExit ==
  /\ pc = "loop"
  /\ ~(irInit /\ simUp)
  /\ irInit' = FALSE
  /\ sigLog' = Append(sigLog, "disconnected")
  /\ pc' = "stopped"
  /\ UNCHANGED << active, updates, device, crash, simUp, state, data, sent_data,
                  driver, options, gui, slotPending, cycles, connects, settings,
                  last, sameSnap, okSent, sentConn, startRun, startSent, checked,
                  frame, inflight, alias >>

\* the check after sleep(0.3): `break` when the source is neither initialized
\* nor connected; a loop left by break does not run its else clause, and
\* run() returns
TestAfterSleep ==
  /\ pc = "slept"
  /\ pc' = IF ~irInit /\ ~simUp THEN "stopped" ELSE "loop"
  /\ UNCHANGED << active, sigLog, updates, device, crash, simUp, irInit, state,
                  data, sent_data, driver, options, gui, slotPending, cycles,
                  connects, settings, last, sameSnap, okSent, sentConn, startRun,
                  startSent, checked, frame, inflight, alias >>

\* the simulator exits during the sleep of the loop: the Telemetry Source
\* reports not connected, and not initialized either or still initialized
TestSimStop ==
  /\ pc = "slept"
  /\ simUp
  /\ simUp' = FALSE
  /\ irInit' \in BOOLEAN
  /\ UNCHANGED << active, sigLog, updates, device, pc, crash, state, data,
                  sent_data, driver, options, gui, slotPending, cycles, connects,
                  settings, last, sameSnap, okSent, sentConn, startRun, startSent,
                  checked, frame, inflight, alias >>

\* the simulator is started again after MainCycle.run has returned
TestSimStart ==
  /\ pc = "stopped"
  /\ ~simUp
  /\ simUp' = TRUE
  /\ UNCHANGED << active, sigLog, updates, device, pc, crash, irInit, state, data,
                  sent_data, driver, options, gui, slotPending, cycles, connects,
                  settings, last, sameSnap, okSent, sentConn, startRun, startSent,
                  checked, frame, inflight, alias >>

\* MainCycle.data_collection: update_data sets the attributes of self.data,
\* which is the object self.sent_data names too once process_data has
\* executed `self.sent_data = self.data`
TestDataCollection ==
  /\ pc = "collect"
  /\ UNCHANGED << active, sigLog, updates, device, simUp, irInit, state, driver, options, gui,
                  slotPending, cycles, connects, settings, last, sameSnap,
                  okSent, sentConn, startRun, startSent, checked, inflight,
                  alias >>
  /\ IF ~simUp
     THEN \* the reads yield None: None > 0 raises a TypeError
          /\ pc' = "crashed"
          /\ crash' = "telemetry"
          /\ UNCHANGED << data, sent_data, frame >>
     ELSE \E tel \in gui.frames :
            /\ frame' = tel
            /\ data' = TestCollectData(data, tel)
            /\ sent_data' = IF alias THEN data' ELSE sent_data
            /\ pc' = "process"
            /\ crash' = crash

\* MainCycle.process_data
TestProcessData ==
  /\ pc = "process"
  /\ cycles' = cycles + 1
  /\ updates' = SignalUpdates(updates, data, sent_data, options)
  /\ UNCHANGED << active, sigLog, device, simUp, irInit, data, driver, options, gui,
                  slotPending, connects, settings, sameSnap, sentConn,
                  startRun, startSent, checked, frame, inflight >>
  /\ LET shown == state.start_hidden_shown
         frames == TestCycleFrames(data, sent_data, options, shown)
         fired == StartFires(data, options, shown)
     IN  IF Len(frames) > 0
         THEN LET n == CycleNotification(data, options, frames)
              IN  \E r \in TestSendResults(n, state.previous_data_sent) :
                    /\ last' = [ Handed("cycle", n, r, data, options) EXCEPT
                                   !.events = TRUE,
                                   !.startFired = fired,
                                   !.emitted = IF r.outcome = "sent" /\ r.exc = "none"
                                               THEN <<data>> ELSE last.emitted ]
                    /\ okSent' = IF r.outcome = "sent" THEN <<n>> ELSE okSent
                    /\ state' = [state EXCEPT !.previous_data_sent = r.prev,
                                              !.start_hidden_shown = (@ \/ fired)]
                    /\ IF r.exc # "none"
                       THEN /\ pc' = "crashed"
                            /\ crash' = "transport"
                            /\ UNCHANGED << sent_data, alias >>
                       ELSE \* self.sent_data = self.data
                            /\ pc' = "slept"
                            /\ crash' = crash
                            /\ sent_data' = data
                            /\ alias' = TRUE
         ELSE /\ last' = [NoLast EXCEPT !.kind = "cycle", !.emitted = last.emitted]
              /\ pc' = "slept"
              /\ crash' = crash
              /\ UNCHANGED << state, sent_data, okSent, alias >>

TestNext ==
  \/ SimStart
  \/ SimStop
  \/ ConnectToIRacingRun
  \/ TestConnectedToIracing
  \/ TestRunStart
  \/ TestLoopEnter
  \/ TestLoopExit
  \/ TestDataCollection
  \/ TestProcessData
  \/ TestAfterSleep
  \/ TestSimStop
  \/ TestSimStart

TestSpec == Init /\ [][TestNext]_vars

\* the threads of test.py keep running: every step of ConnectToIRacing's
\* slot and of MainCycle.run that can be taken is taken
TestWorkerStep ==
  \/ TestConnectedToIracing
  \/ TestRunStart
  \/ TestLoopEnter
  \/ TestLoopExit
  \/ TestDataCollection
  \/ TestProcessData
  \/ TestAfterSleep

TestLiveSpec == Init /\ [][TestNext]_vars /\ WF_vars(TestWorkerStep)

(***************************************************************************)
(* Properties.                                                             *)
(***************************************************************************)
\* the latest handler was a poll cycle, and data and options are still the
\* ones it read
AfterCycle == last.kind = "cycle" /\ pc # "process"

\* the latest handler called the Transport send
Attempted == last.outcome \in {"failed", "sent", "raised"}

HandedFrames == last.handed[1].model.frames

FieldIcons ==
  { Icons.purple, Icons.gain_position, Icons.lose_position, Icons.laps,
    Icons.position }

\* C1: no two consecutive successful Transport sends carry value-identical
\* payloads.
C1_NoRepeatedPayload == ~last.dup

\* C2 (as claimed): with flags enabled, whenever the flags mask of the cycle
\* has any bit set other than start_hidden, a notification is handed to
\* send_notification and it has no best-lap, position or laps frame.
C2_AnyBitSuppressesFields ==
  (AfterCycle /\ options.enable_flags /\ (data.flags \ {"start_hidden"}) # {})
    => /\ last.handed # <<>>
       /\ \A i \in 1..Len(HandedFrames) : HandedFrames[i].icon \notin FieldIcons

\* C2 (amended): with flags enabled, whenever the flags mask of the cycle has
\* a bit of the flag table set (a bit other than start_hidden that
\* process_data checks), the notification handed to send_notification holds
\* exactly the flag-derived frames (the Start frame when it fires, then one
\* frame per table flag) and no best-lap, position or laps frame.
C2_FlagPriority ==
  (AfterCycle /\ options.enable_flags /\ (data.flags \cap TableBits) # {})
    => /\ last.handed # <<>>
       /\ HandedFrames = (IF last.startFired THEN <<StartFrame>> ELSE <<>>)
                           \o FlagFramesFrom(data.flags, 1)
       /\ \A i \in 1..Len(HandedFrames) : HandedFrames[i].icon \notin FieldIcons

\* a cycle with a flag active in which best lap and position differed from
\* the values last sent
C2_Witness ==
  /\ AfterCycle
  /\ options.enable_flags
  /\ "checkered" \in data.flags
  /\ {"best_laptime", "position"} \subseteq last.differ
  /\ last.handed # <<>>
  /\ HandedFrames = <<StartFrame, Frame(Icons.checkered, "Finish")>>

\* C3: after more than one consecutive cycle of a connection with only the
\* start_hidden bit set, exactly one notification with the Start frame has
\* been transmitted during that connection.
C3_StartExactlyOnce == startRun >= 2 => startSent = 1

C5_NoStaleSuppression == ~last.stale

\* C6: when the send of a cycle failed and the next cycle collects the same
\* snapshot, the next cycle hands the same payload to the Transport again.
C6_FailedSendRetried == (last.kind = "cycle" /\ last.prevFailed) => last.retried

\* C7: previous_data_sent is assigned only by a send the device accepted,
\* and after such a send it equals the payload sent.
C7_RecordedIffSent ==
  last.kind \in {"cycle", "connected"} =>
    /\ last.recorded => last.outcome = "sent"
    /\ last.outcome = "sent" => state.previous_data_sent = last.handed

\* C8: no exception raised by a Transport call ends run().
C8_TransportNeverEndsRun == crash # "transport"

\* C9: the source going away during a cycle does not end run().
C9_SourceLossNeverEndsRun == crash # "telemetry"

\* C10 (as claimed): a cycle with no flag active and a best-lap, position or
\* laps change builds a notification of priority info or warning with
\* cycles 1 or 2.
C10_EventIsInfoOrWarning ==
  (AfterCycle /\ last.events /\ ~last.flag /\ last.changed # {})
    => /\ last.handed[1].priority \in {"info", "warning"}
       /\ last.handed[1].model.cycles \in {1, 2}

\* the frames of the changed fields, in the order best lap, position, laps
ChangedFrames(ch, d, frames) ==
  LET nb == IF "best_laptime" \in ch THEN 1 ELSE 0
      np == IF "position" \in ch THEN 1 ELSE 0
      nl == IF "laps" \in ch THEN 1 ELSE 0
  IN  /\ Len(frames) = nb + np + nl
      /\ nb = 1 => frames[1] = Frame(Icons.purple, d.best_laptime)
      /\ np = 1 => /\ frames[nb + 1].text = d.position
                   /\ frames[nb + 1].icon \in {Icons.gain_position, Icons.lose_position}
      /\ nl = 1 => frames[nb + np + 1] = Frame(Icons.laps, d.laps)

\* C10 (amended): a cycle with no flag active and a change of an enabled
\* best-lap, position or laps field builds a notification of priority
\* critical with cycles 1, holding (after the Start frame, when it fires) one
\* frame per changed field in the order best lap, position, laps.
C10_EventIsCriticalOnce ==
  (AfterCycle /\ last.events /\ ~last.flag /\ last.changed # {})
    => /\ last.handed[1].priority = "critical"
       /\ last.handed[1].icon_type = "none"
       /\ last.handed[1].model.cycles = 1
       /\ ChangedFrames(last.changed, data,
                        IF last.startFired THEN Tail(HandedFrames) ELSE HandedFrames)

\* position "3 / 20" with best lap "1:10.500" after position "5 / 20" was sent
C10_Witness ==
  /\ AfterCycle
  /\ last.changed = {"best_laptime", "position"}
  /\ HandedFrames = << Frame(Icons.purple, "1:10.500"),
                       Frame(Icons.gain_position, "3 / 20") >>

\* C11: with flags enabled, a cycle in which a flag of the flag table is
\* active builds a notification of priority critical with cycles 0, holding
\* one frame per detected flag (the Start frame when it fires, then one per
\* table flag); when checkered is the only flag bit the frames are the single
\* frame (checkered icon, "Finish"), whatever best lap, position and laps are.
C11_FlagIsCriticalSticky ==
  (AfterCycle /\ last.flag)
    => /\ last.handed # <<>>
       /\ last.handed[1].priority = "critical"
       /\ last.handed[1].model.cycles = 0
       /\ Len(HandedFrames) = Cardinality(data.flags \cap TableBits)
                                + (IF last.startFired THEN 1 ELSE 0)
       /\ data.flags = {"checkered"}
            => HandedFrames = <<Frame(Icons.checkered, "Finish")>>

\* a cycle whose only flag bit is checkered while the position differs from
\* the one last sent
C11_Witness ==
  /\ AfterCycle
  /\ last.flag
  /\ data.flags = {"checkered"}
  /\ "position" \in last.differ
  /\ last.handed = <<Notification("critical", "none",
                       Model(0, <<Frame(Icons.checkered, "Finish")>>))>>

\* C12: every notification handed to the Transport send has a non-empty
\* frame list: the one the latest handler handed, and, for every value of
\* the options, the one connected() or process_data would hand in the
\* current state.
C12_HandedFramesNonEmpty ==
  /\ last.handed # <<>> => Len(HandedFrames) > 0
  /\ pc = "connect" =>
       \A o \in AllOptions :
         LET n == RatingsNotification(driver, o)
         IN  n # <<>> => Len(n[1].model.frames) > 0
  /\ pc = "process" =>
       \A o \in AllOptions :
         LET n == ProcessNotification(data, sent_data, driver, o,
                                      state.start_hidden_shown)
         IN  n # <<>> => Len(n[1].model.frames) > 0

\* with both rating options off, a cycle hands a notification of one frame
\* to the Transport
C12_Witness ==
  /\ last.kind = "cycle"
  /\ ~options.enable_irating /\ ~options.enable_license
  /\ options.default_display = "ratings"
  /\ last.handed # <<>>
  /\ Attempted
  /\ Len(HandedFrames) = 1

\* C13: the dismissal pass that follows a successful send issues a DELETE
\* for exactly the queued notifications whose id differs from the id just
\* returned and whose cycles is 0.
C13_DismissalExact == last.dismissal \in {"none", "exact"}

\* C14: run() derives the connection state at every check: connected() and
\* the poll cycle run only after a check that read the source initialized and
\* connected; after a check that read otherwise no cycle runs and
\* state.ir_connected is false; and whenever no iteration is in progress
\* state.ir_connected equals what the latest check read.
C14_StateFollowsCheck ==
  /\ InIteration => checked = "up"
  /\ checked = "down" => ~InIteration /\ ~state.ir_connected
  /\ (checked = "up" /\ ~InIteration) => state.ir_connected

\* C15: at no time are two executions of the pipeline in progress: an
\* execution begins at the connectivity check of run() and the next one
\* begins only after it has ended.
C15_OnePipelineAtATime ==
  /\ inflight \in {0, 1}
  /\ InIteration <=> inflight = 1

\* the second cycle of a connection is in progress after a first cycle whose
\* send got no answer from the device
C15_Witness ==
  /\ pc = "process"
  /\ cycles = 1
  /\ last.kind = "cycle"
  /\ last.outcome = "failed"
  /\ inflight = 1

\* C16: no step of the GUI thread changes what a cycle in progress reads:
\* while an iteration of run() is between data_collection and the end of
\* process_data, the options of the worker do not change.
C16_GuiLeavesCycleAlone == [][pc = "process" => options' = options]_vars

Terminated == pc \in {"stopped", "crashed"}

\* C17: once deactivate() has cleared _active, run() eventually ends,
\* whether it was in the connected branch or in the retry branch; and a loop
\* condition evaluated with _active cleared starts no poll cycle.
C17_RunTerminates ==
  /\ (pc # "idle" /\ ~active) ~> Terminated
  /\ [][(~active /\ LoopHead) => pc' \in {"loop", "stopped"}]_vars

\* run() has returned after deactivate() was called during a connection in
\* which a poll cycle ran
C17_Witness ==
  /\ pc = "stopped"
  /\ ~active
  /\ state.ir_connected
  /\ cycles > 0

\* C18: when the device IP or the API key is missing from the settings, no
\* request reaches the device: no send is accepted, no dismissal pass lists
\* the queue, previous_data_sent is never assigned, and no poll cycle ends in
\* an exception of a Transport call.
C18_NoSettingsNoOp ==
  ~settings =>
    /\ state.previous_data_sent = <<>>
    /\ okSent = <<>>
    /\ last.outcome \in {"none", "failed"}
    /\ last.dismissal = "none"
    /\ crash # "transport"

\* without settings, a poll cycle handed a notification to send_notification
\* and ended normally
C18_Witness ==
  /\ ~settings
  /\ last.kind = "cycle"
  /\ last.handed # <<>>
  /\ last.outcome = "failed"
  /\ pc = "loop"

IsDigit(c) == c \in {"0", "1", "2", "3", "4", "5", "6", "7", "8", "9"}

\* s reads minutes ":" two digits "." three digits
LapTimeWellFormed(s) ==
  LET n == Len(s)
  IN  /\ n >= 8
      /\ SubSeq(s, n - 3, n - 3) = "."
      /\ SubSeq(s, n - 6, n - 6) = ":"
      /\ \A i \in (1..n) \ {n - 3, n - 6} : IsDigit(SubSeq(s, i, i))

\* C19: data_collection renders every positive best lap time as
\* minutes:seconds.milliseconds with exactly two integer digits of seconds
\* and three decimals; 63.4 s gives "1:03.400" and 9.05 s gives "0:09.050".
C19_BestLapFormat ==
  (pc = "process" /\ frame.LapBestLapTime > 0)
    => /\ LapTimeWellFormed(data.best_laptime)
       /\ frame.LapBestLapTime = 634000 => data.best_laptime = "1:03.400"
       /\ frame.LapBestLapTime = 90500 => data.best_laptime = "0:09.050"

\* C20: whenever data_collection reads 32000 or more laps remaining,
\* whatever the laps completed, data.laps holds the laps completed with the
\* infinite marker as lap total.
C20_InfiniteLaps ==
  (pc = "process" /\ frame.SessionLapsRemainEx >= 32000)
    => data.laps = ToString(frame.LapCompleted) \o " / " \o InfinityMark

\* C21: sent_data is modified only by a cycle whose notification the device
\* accepted: a step that changes a field of sent_data is the end of a
\* process_data call whose send succeeded.
C21_SentDataOnlyAfterSend ==
  [][sent_data' # sent_data => (last'.kind = "cycle" /\ last'.outcome = "sent")]_vars

\* the frames send_ratings can build for the driver
RatingFrameSet ==
  { Frame(Icons.ir, FormatThousands(driver.irating)),
    Frame(LicenseIcon(driver.license_letter), FormatFloat(driver.safety_rating)) }

HandedRatingFrame ==
  /\ last.handed # <<>>
  /\ \E i \in 1..Len(HandedFrames) : HandedFrames[i] \in RatingFrameSet

\* C22: a connected() call that completes has handed the rating notification
\* to send_notification once (when an enabled rating option gives it a
\* frame) and nothing else; a poll cycle hands a rating frame only when
\* process_data built no flag, best-lap, position or laps frame, and then the
\* notification is the rating notification alone; the notification of a
\* cycle that built such a frame holds no rating frame.
C22_RatingsAtConnectThenWhenQuiet ==
  /\ last.kind = "connected" =>
       /\ last.handed \in {<<>>, RatingsNotification(driver, options)}
       /\ state.ir_connected => last.handed = RatingsNotification(driver, options)
  /\ last.kind = "cycle" =>
       /\ last.events => ~HandedRatingFrame
       /\ HandedRatingFrame =>
            /\ ~last.events
            /\ options.default_display = "ratings"
            /\ last.handed = RatingsNotification(driver, options)

\* the second cycle of a connection built no frame and handed the rating
\* notification that connected() had handed
C22_Witness ==
  /\ last.kind = "cycle"
  /\ cycles = 2
  /\ connects = 1
  /\ ~last.events
  /\ last.handed = RatingsNotification(driver, options)
  /\ Len(HandedFrames) = 2

\* C24: an iteration of run(), the one that calls connected() included, makes
\* at most one call of the Transport send.
C24_OneSendPerIteration == last.sends <= 1

\* C30: send_notification makes no Transport call whenever the frames of the
\* notification it is handed equal the frames of the latest notification
\* the device accepted, whatever their cycles and priority.
C30_SameFramesSuppressed ==
  (last.handed # <<>> /\ last.sameFrames) => last.outcome = "suppressed"

\* the order in which process_data tests the bits of the mask
FlagCheckOrder ==
  << "checkered", "white", "green", "yellow", "red", "blue", "debris",
     "crossed", "yellow_waving", "one_lap_to_green", "green_held",
     "ten_to_go", "five_to_go", "random_waving", "caution", "caution_waving",
     "black", "disqualify", "furled", "repair" >>

\* the order of the table as claimed
ClaimedFlagOrder ==
  << "checkered", "white", "green", "yellow", "yellow_waving", "red", "blue",
     "debris", "crossed", "one_lap_to_green", "green_held", "ten_to_go",
     "five_to_go", "random_waving", "caution", "caution_waving", "black",
     "disqualify", "furled", "repair" >>

FrameOfBit(bit) ==
  LET i == CHOOSE j \in 1..Len(FlagTable) : FlagTable[j].bit = bit
  IN  Frame(FlagTable[i].icon, FlagTable[i].text)

\* one frame per bit of mask that occurs in order, in that order
RECURSIVE FramesInOrder(_, _)
FramesInOrder(order, mask) ==
  IF order = <<>> THEN <<>>
  ELSE (IF Head(order) \in mask THEN <<FrameOfBit(Head(order))>> ELSE <<>>)
       \o FramesInOrder(Tail(order), mask)

\* the masks with at most two bits set, and the mask with every bit set
FlagMasks == {{a, b} : a, b \in AllFlagBits} \cup {{}, AllFlagBits}

\* the frames process_data builds from mask with flags enabled are the Start
\* frame, when it fires, followed by one frame per table bit set, in `order`
FlagFramesFollow(order) ==
  /\ (AfterCycle /\ last.flag) =>
       HandedFrames = (IF last.startFired THEN <<StartFrame>> ELSE <<>>)
                        \o FramesInOrder(order, data.flags)
  /\ pc = "process" =>
       \A mask \in FlagMasks :
         LET d == [data EXCEPT !.flags = mask]
             o == [options EXCEPT !.enable_flags = TRUE]
             shown == state.start_hidden_shown
         IN  (mask \cap TableBits) # {} =>
               CycleFrames(d, sent_data, o, shown)
                 = (IF StartFires(d, o, shown) THEN <<StartFrame>> ELSE <<>>)
                     \o FramesInOrder(order, mask)

\* C25 (as claimed): for every flags mask the flag frames appear in the order
\* start-hidden, checkered, white, green, yellow, yellow-waving, red, blue,
\* debris, crossed, one-lap-to-green, green-held, ten-to-go, five-to-go,
\* random-waving, caution, caution-waving, black, disqualify, furled-black,
\* repair, with exactly one frame per set bit of the table.
C25_FlagFramesInClaimedOrder == FlagFramesFollow(ClaimedFlagOrder)

\* C25 (amended): for every flags mask the flag frames appear in the order
\* start-hidden, checkered, white, green, yellow, red, blue, debris, crossed,
\* yellow-waving, one-lap-to-green, green-held, ten-to-go, five-to-go,
\* random-waving, caution, caution-waving, black, disqualify, furled-black,
\* repair (yellow-waving after crossed), with exactly one frame per set bit
\* of the table.
C25_FlagFramesInCheckOrder == FlagFramesFollow(FlagCheckOrder)

\* a cycle with yellow, red and yellow-waving set handed the frames Yellow,
\* Red, Yellow (waving)
C25_Witness ==
  /\ AfterCycle
  /\ last.flag
  /\ data.flags = {"yellow", "red", "yellow_waving"}
  /\ HandedFrames = << Frame(Icons.yellow, "Yellow"), Frame(Icons.red, "Red"),
                       Frame(Icons.yellow_waving, "Yellow") >>

\* the bits of the mask that no check of process_data sets `flag` for
UncheckedBits ==
  {"start_hidden", "serviceable", "start_ready", "start_set", "start_go"}

ActiveByAnyBit(mask) == (mask \ {"start_hidden"}) # {}

ActiveByCheckedBit(mask) == (mask \ UncheckedBits) # {}

\* with flags enabled, the flag indicator of process_data is Active of the
\* mask: in the cycle that just ran, and for every mask in the current state
\* (the indicator itself, and the cycles value it gives the notification)
FlagIndicatorIs(Active(_)) ==
  /\ (AfterCycle /\ last.handed # <<>> /\ options.enable_flags) =>
       /\ last.flag <=> Active(data.flags)
       /\ last.events => (last.handed[1].model.cycles = 0 <=> Active(data.flags))
  /\ pc = "process" =>
       \A mask \in FlagMasks :
         LET d == [data EXCEPT !.flags = mask]
             o == [options EXCEPT !.enable_flags = TRUE]
             frames == CycleFrames(d, sent_data, o, state.start_hidden_shown)
         IN  /\ FlagActive(d, o) <=> Active(mask)
             /\ frames # <<>> =>
                  (CycleNotification(d, o, frames).model.cycles = 0 <=> Active(mask))

\* C26 (as claimed): with flags enabled, the flag indicator is true exactly
\* when the mask has any bit set other than start-hidden, bits without a
\* table entry included.
C26_FlagActiveOnAnyBit == FlagIndicatorIs(ActiveByAnyBit)

\* C26 (amended): with flags enabled, the flag indicator is true exactly
\* when the mask has a bit of the flag table set, that is any bit other than
\* start-hidden, serviceable, start-ready, start-set and start-go.
C26_FlagActiveOnCheckedBit == FlagIndicatorIs(ActiveByCheckedBit)

\* a cycle whose mask has only the serviceable bit handed a position frame
\* in a notification of one cycle
C26_Witness ==
  /\ AfterCycle
  /\ options.enable_flags
  /\ data.flags = {"serviceable"}
  /\ last.events
  /\ ~last.flag
  /\ last.handed = <<Notification("critical", "none",
                       Model(1, <<Frame(Icons.gain_position, "3 / 20")>>))>>

\* the rank number of a "rank / field-size" position string
RECURSIVE RankFrom(_, _, _)
RankFrom(s, i, acc) ==
  IF i > Len(s) \/ SubSeq(s, i, i) = " " THEN acc
  ELSE RankFrom(s, i + 1, 10 * acc + (CharOrd(SubSeq(s, i, i)) - 48))

RankOf(s) == RankFrom(s, 1, 0)

\* C27: when process_data is about to build a position frame against a
\* position sent before, the frame carries the gain-position icon exactly
\* when the rank number decreased relative to sent_data.position, and the
\* lose-position icon otherwise.
C27_PositionIconFollowsRank ==
  (/\ pc = "process"
   /\ sent_data.position # None
   /\ PositionChanged(data, sent_data, options)
   /\ options.enable_position)
    => LET n == ProcessNotification(data, sent_data, driver, options,
                                    state.start_hidden_shown)
           frames == n[1].model.frames
       IN  \E i \in 1..Len(frames) :
             /\ frames[i].text = data.position
             /\ frames[i].icon =
                  IF RankOf(data.position) < RankOf(sent_data.position)
                  THEN Icons.gain_position
                  ELSE Icons.lose_position

\* the fields whose frame the options enable
EnabledFields(o) ==
  (IF o.enable_bestlap THEN {"best_laptime"} ELSE {})
  \cup (IF o.enable_position THEN {"position"} ELSE {})
  \cup (IF o.enable_laps THEN {"laps"} ELSE {})

\* C28: with no flag active, the best-lap, position and laps checks are
\* independent: the cycle that just ran gave a frame for exactly the enabled
\* fields that differed from sent_data; and in the current state, for every
\* setting of the three options, the frames process_data builds (after the
\* Start frame, when it fires) are one frame per enabled field that differs
\* from sent_data, in the order best lap, position, laps, and no other.
C28_FieldChecksIndependent ==
  /\ (AfterCycle /\ last.handed # <<>> /\ ~last.flag /\ last.events) =>
       last.changed = last.differ \cap EnabledFields(options)
  /\ pc = "process" =>
       \A eb \in BOOLEAN, ep \in BOOLEAN, el \in BOOLEAN :
         LET o == [options EXCEPT !.enable_bestlap = eb, !.enable_position = ep,
                                  !.enable_laps = el]
             shown == state.start_hidden_shown
             frames == CycleFrames(data, sent_data, o, shown)
             fields == IF StartFires(data, o, shown) THEN Tail(frames) ELSE frames
         IN  ~FlagActive(data, o) =>
               ChangedFrames(DifferingFields(data, sent_data) \cap EnabledFields(o),
                             data, fields)

\* the second cycle of a connection found a new best lap and a new lap count
\* at an unchanged position, and handed the best-lap frame and the laps frame
C28_Witness ==
  /\ AfterCycle
  /\ cycles = 2
  /\ last.differ = {"best_laptime", "laps"}
  /\ HandedFrames = << Frame(Icons.purple, "1:10.000"), Frame(Icons.laps, "2 / 11") >>

\* C23: in test.py, a send that gets no result from call_lametric_api does
\* not end the polling: send_notification returns without raising,
\* previous_data_sent is not assigned and run() goes on.
C23_FailedSendKeepsPolling ==
  (last.kind \in {"cycle", "connected"} /\ last.outcome = "failed")
    => /\ pc # "crashed"
       /\ crash = "none"
       /\ ~last.recorded

\* frames holds the frame process_data builds for a change of field f
HasFieldFrame(frames, f, d) ==
  \E i \in 1..Len(frames) :
    CASE f = "best_laptime" -> frames[i] = Frame(Icons.purple, d.best_laptime)
      [] f = "position" ->
           /\ frames[i].text = d.position
           /\ frames[i].icon \in {Icons.gain_position, Icons.lose_position}
      [] OTHER -> frames[i] = Frame(Icons.laps, d.laps)

\* C29: in test.py, once a cycle has emitted a notification, sent_data holds
\* the values of the last emission when process_data runs, whatever
\* data_collection has read since; and with no flag active process_data
\* builds a frame for every enabled field among best lap, position and laps
\* that differs from the value last emitted.
C29_ChangeAfterEmissionGivesFrame ==
  (pc = "process" /\ last.emitted # <<>>)
    => /\ sent_data = last.emitted[1]
       /\ ~FlagActive(data, options) =>
            \A f \in DifferingFields(data, last.emitted[1]) \cap EnabledFields(options) :
              HasFieldFrame(TestCycleFrames(data, sent_data, options,
                                            state.start_hidden_shown), f, data)

\* run() is at its loop condition in the Disconnected state
WaitingForSource == pc = "loop" /\ active /\ ~state.ir_connected

\* connected() has run to its end and a poll cycle is under way
Polling == state.ir_connected /\ pc \in {"collect", "process"}

\* C31: whenever run() is waiting in the Disconnected state (after any
\* number of earlier connections), then, unless the source goes or stays
\* away or the worker is deactivated, connected() eventually runs and a poll
\* cycle starts.
C31_ReconnectsWhenSourceUp ==
  (WaitingForSource /\ connects < MaxConnects)
    ~> (Polling \/ ~simUp \/ ~active)

\* C33: the signals connected_to_iracing and disconnected_from_iracing
\* alternate, starting with connected_to_iracing, and state.ir_connected is
\* true exactly when the latest signal is connected_to_iracing (between a
\* connected signal and the next disconnected signal).
C33_SignalsAlternate ==
  /\ \A i \in 1..Len(sigLog) :
       sigLog[i] = IF i % 2 = 1 THEN "connected" ELSE "disconnected"
  /\ state.ir_connected <=> Len(sigLog) % 2 = 1

\* the source went away and came back: connected, disconnected, connected
C33_Witness ==
  /\ sigLog = <<"connected", "disconnected", "connected">>
  /\ state.ir_connected
  /\ connects = 2

\* C32: in test.py, once MainCycle has reported a disconnect and the
\* simulator is running again, connected_to_iracing is eventually emitted
\* again (and a new MainCycle starts).
C32_ReconnectsAfterDisconnect ==
  (pc = "stopped" /\ sigLog = <<"connected", "disconnected">> /\ simUp)
    ~> (Len(sigLog) > 2)

\* C34: in test.py, whenever the polling loop of MainCycle.run has ended
\* because the source is no longer initialized and connected (by the loop
\* condition or by the check after the sleep), the else clause has run:
\* ir.shutdown() was called and disconnected_from_iracing was emitted.
C34_LoopEndSignalsDisconnect ==
  pc = "stopped" => sigLog = <<"connected", "disconnected">>

\* C35: the GUI is told every value of position, laps and best lap that
\* stays: at the end of a poll cycle in which no flag is active, the latest
\* position_update (laps_update, best_laptime_update) signal carried the
\* value data_collection read, also when the value first appeared in a cycle
\* in which a flag was active.
C35_UpdatesFollowData ==
  (AfterCycle /\ ~FlagActive(data, options))
    => /\ data.position # None => updates.position = data.position
       /\ data.laps # None => updates.laps = data.laps
       /\ data.best_laptime # None => updates.best_laptime = data.best_laptime

\* a notification of a flag in the queue of the device: critical, cycles 0
StickyFlagEntry(e) == e.priority = "critical" /\ e.cycles = 0

\* C36: with the ratings as default display and every Transport call
\* succeeding, a flag notification the device accepted does not outlive the
\* flags: at the end of every poll cycle in which no flag was active, the
\* queue of the device holds no flag notification (the cycle sent a non-flag
\* or rating notification, or ran the dismissal of persistent notifications,
\* and the pass removed it).
C36_FlagNotificationDismissed ==
  (device.on /\ AfterCycle /\ ~FlagActive(data, options)
     /\ options.default_display = "ratings")
    => \A k \in 1..Len(device.queue) : ~StickyFlagEntry(device.queue[k])

\* a cycle without flags handed the rating notification, and its dismissal
\* pass removed the flag notification of the cycle before
C36_Witness ==
  /\ device.on
  /\ AfterCycle
  /\ data.flags = {}
  /\ last.handed = RatingsNotification(driver, options)
  /\ last.outcome = "sent"
  /\ \E k \in 1..Len(last.removed) : StickyFlagEntry(last.removed[k])
  /\ \A k \in 1..Len(device.queue) : ~StickyFlagEntry(device.queue[k])

\* the icon of the frame send_default_display builds for an entry of the
\* combo box, and the field of Data the frame shows
SelectedIcon(dd) ==
  CASE dd = "position" -> Icons.position
    [] dd = "laps"     -> Icons.laps
    [] dd = "bestlap"  -> Icons.purple

SelectedText(dd, d) ==
  CASE dd = "position" -> PyStr(d.position)
    [] dd = "laps"     -> PyStr(d.laps)
    [] dd = "bestlap"  -> PyStr(d.best_laptime)

\* C37: whichever entry of the combo box of MainWindow is selected (ratings,
\* position, laps, best lap), a poll cycle in which process_data built no
\* event frame hands send_notification a notification showing the selected
\* field: the rating frames for ratings, else one frame with the value of
\* the field.
C37_DefaultDisplayShowsSelection ==
  (AfterCycle /\ ~last.events /\ options.default_display \in DefaultDisplayOptions)
    => /\ last.handed # <<>>
       /\ LET frames == last.handed[1].model.frames
              dd == options.default_display
          IN  IF dd = "ratings" THEN frames = RatingFrames(driver, options)
              ELSE frames = <<Frame(SelectedIcon(dd), SelectedText(dd, data))>>

\* the frames of the flag checks
FlagFrameSet ==
  {StartFrame} \cup {Frame(FlagTable[i].icon, FlagTable[i].text) : i \in 1..Len(FlagTable)}

LicenseIcons ==
  { Icons.license_letter_r, Icons.license_letter_d, Icons.license_letter_c,
    Icons.license_letter_b, Icons.license_letter_a, Icons.license_letter_p }

\* the option that governs the kind of frame f is enabled in o
FrameAllowed(f, o) ==
  /\ f \in FlagFrameSet => o.enable_flags
  /\ f.icon = Icons.purple => o.enable_bestlap
  /\ f.icon \in {Icons.position, Icons.gain_position, Icons.lose_position}
       => o.enable_position
  /\ f.icon = Icons.laps => o.enable_laps
  /\ (f.icon = Icons.ir /\ f \notin FlagFrameSet) => o.enable_irating
  /\ f.icon \in LicenseIcons => o.enable_license

\* C38: no notification the pipeline sent to the device holds a frame of
\* a kind whose option was disabled when the frames were built (flags, best
\* lap, position, laps, iRating, license); and with enable_flags disabled the
\* flag bits give no frame and suppress no frame of a changed, enabled field.
C38_DisabledOptionsRespected ==
  /\ (last.kind \in {"connected", "cycle"} /\ last.outcome = "sent")
       => \A k \in 1..Len(last.handed[1].model.frames) :
            FrameAllowed(last.handed[1].model.frames[k], options)
  /\ (AfterCycle /\ ~options.enable_flags /\ last.handed # <<>>)
       => /\ \A k \in 1..Len(last.handed[1].model.frames) :
               last.handed[1].model.frames[k] \notin FlagFrameSet
          /\ last.events => last.changed = last.differ \cap EnabledFields(options)

====
